---- MODULE Spec2Model ----
(***************************************************************************)
(* Estate Sale Connect: the Netlify functions of the lead marketplace,     *)
(* modelled as state machines over the Supabase tables (Leads, Companies), *)
(* the in-process rate-limit maps and the wall clock.                      *)
(*                                                                         *)
(* Time.  Date.now() is modelled by the variable `now`, counted in ticks   *)
(* of five minutes.  Every duration of the source is a whole number of     *)
(* ticks: 15 minutes = 3, 1 hour = 12, 24 hours = 288.  Comparisons keep   *)
(* the strictness (<, <=, >, >=) they have in the source.                  *)
(***************************************************************************)
EXTENDS Integers, Sequences, FiniteSets, TLC

VARIABLES
    now,                    \* Date.now(), in ticks
    Leads,                  \* Supabase table Leads: lead id -> row
    resp,                   \* what the last step answered (NoResp when it answered nothing)
    seenOutsideWindow,      \* leads for which some read computed isInExclusiveWindow = false
    leadsRateLimitStorage,  \* rateLimitStorage of secure-leads-api.js
    configRateLimitStorage, \* rateLimitStorage of create-checkout.js (get-config)
    claimedWindow,          \* the fixed window as the specification describes it (history)
    Companies,              \* rows of the Companies table, in order of insertion
    inflight,               \* requests waiting for the datastore's answer, by slot
    nextToken,              \* number of the next verification token to be generated
    rateLimitStore,         \* rateLimitStore of resend-verification.js
    verifiedTokens,         \* tokens with which verify-email has succeeded (history)
    resendLog               \* the latest answered resend-verification requests (history)

vars == <<now, Leads, resp, seenOutsideWindow, leadsRateLimitStorage,
          configRateLimitStorage, claimedWindow,
          Companies, inflight, nextToken, rateLimitStore, verifiedTokens, resendLog>>

\* Groups of variables, for the frame conditions of the actions.
leadVars == <<Leads, seenOutsideWindow>>
limiterVars == <<configRateLimitStorage, claimedWindow>>
accountVars == <<Companies, inflight, nextToken, rateLimitStore, verifiedTokens, resendLog>>

(***************************************************************************)
(* Bounds of the model                                                     *)
(***************************************************************************)
NumLeads == 1           \* leads in the table
MaxTimeLeads == 1       \* the clock of the leads specifications runs 0..MaxTimeLeads
MaxCallsLeads == 2      \* GET /leads calls counted per key in the leads specifications
MaxTimeRate == 13       \* the clock of the rate-limiter specification runs 0..MaxTimeRate
MaxInFlight == 2        \* account requests waiting for the datastore at the same time
MaxCompanies == 2       \* rows inserted into Companies in the signup specification
MaxAccounts == 1        \* rows inserted into Companies in the verification specification
MaxTokens == 2          \* tokens generated in the signup and verification specifications
MaxResendTokens == 5    \* verification tokens generated in the resend specification
MaxTimeResend == 3      \* the clock of the resend specification runs 0..MaxTimeResend
MaxTimeLogin == 1       \* the clock of the login specification runs 0..MaxTimeLogin
MaxDays == 2            \* whole days that pass in the lifecycle specification

(***************************************************************************)
(* Durations, in ticks                                                     *)
(***************************************************************************)
MinutesPerTick == 5
Hour == 60 \div MinutesPerTick
H24 == 24 * Hour

NULL == "null"          \* JSON null / absent column
NoDate == -100000       \* a null timestamp column
NaN == -777777          \* parseInt of a non-numeric string

LeadIds == 1..NumLeads
CompanyNames == {"Acme Estates", "Bolt Sales"}
SubscriptionStatuses == {"none", "active", "past_due", "cancelled"}

\* Odd leads were submitted 24 hours minus one tick before the model starts
\* (they leave the exclusive window at now = 1), even leads at time 0.
CreatedAtOf(id) == IF id % 2 = 1 THEN 1 - H24 ELSE 0
ZipCodeOf(id) == IF id % 2 = 1 THEN 28202 ELSE 28078

PropertyTypeOf(id) == IF id % 2 = 1 THEN "house" ELSE "condo"
TimelineOf(id) == IF id % 2 = 1 THEN "asap" ELSE "month"

\* The row validate-lead-data.js inserts for a submission at time t.
NewLeadRow(id, t) ==
    [ id |-> id,
      first_name |-> "John", last_name |-> "Smith",
      email |-> "john.smith@email.com", phone |-> "(555) 123-4567",
      address |-> "123 Main Street, Charlotte, NC 28202",
      zip_code |-> ZipCodeOf(id),
      property_type |-> PropertyTypeOf(id), timeline |-> TimelineOf(id),
      created_at |-> t,
      exclusive_purchased_by |-> NULL,
      exclusive_purchase_date |-> NoDate ]

(***************************************************************************)
(* sanitizeLead: the caller-visible projection of a lead row               *)
(***************************************************************************)
Truthy(v) == v # NULL /\ v # ""

sanitizeLead_NoBuyerCheck(lead, user, t) ==
    LET hoursSinceSubmission == t - lead.created_at
        isInExclusiveWindow == hoursSinceSubmission < H24 /\ ~Truthy(lead.exclusive_purchased_by)
        hasContactAccess == user.subscriptionStatus = "active"
        base == [ id |-> lead.id, propertyType |-> lead.property_type,
                  timeline |-> lead.timeline, zipCode |-> lead.zip_code,
                  isInExclusiveWindow |-> isInExclusiveWindow,
                  exclusivePurchasedBy |-> lead.exclusive_purchased_by,
                  exclusivePurchaseDate |-> lead.exclusive_purchase_date ]
    IN  IF hasContactAccess
        THEN base @@ [ firstName |-> lead.first_name, lastName |-> lead.last_name,
                       email |-> lead.email, phone |-> lead.phone,
                       address |-> lead.address ]
        ELSE base @@ [ firstName |-> "Subscribe", lastName |-> "to view",
                       email |-> "subscription@required.com", phone |-> "***-***-****",
                       address |-> "Subscription required to view address" ]

sanitizeLead_WindowIgnoresBuyer(lead, user, t) ==
    LET hoursSinceSubmission == t - lead.created_at
        isInExclusiveWindow == hoursSinceSubmission < H24
        hasContactAccess == user.subscriptionStatus = "active"
                            /\ ~Truthy(lead.exclusive_purchased_by)
        base == [ id |-> lead.id, propertyType |-> lead.property_type,
                  timeline |-> lead.timeline, zipCode |-> lead.zip_code,
                  isInExclusiveWindow |-> isInExclusiveWindow,
                  exclusivePurchasedBy |-> lead.exclusive_purchased_by,
                  exclusivePurchaseDate |-> lead.exclusive_purchase_date ]
    IN  IF hasContactAccess
        THEN base @@ [ firstName |-> lead.first_name, lastName |-> lead.last_name,
                       email |-> lead.email, phone |-> lead.phone,
                       address |-> lead.address ]
        ELSE base @@ [ firstName |-> "Subscribe", lastName |-> "to view",
                       email |-> "subscription@required.com", phone |-> "***-***-****",
                       address |-> "Subscription required to view address" ]

sanitizeLead(lead, user, t) ==
    LET hoursSinceSubmission == t - lead.created_at
        isInExclusiveWindow == hoursSinceSubmission < H24 /\ ~Truthy(lead.exclusive_purchased_by)
        hasContactAccess == user.subscriptionStatus = "active"
                            /\ ~Truthy(lead.exclusive_purchased_by)
        base == [ id |-> lead.id, propertyType |-> lead.property_type,
                  timeline |-> lead.timeline, zipCode |-> lead.zip_code,
                  isInExclusiveWindow |-> isInExclusiveWindow,
                  exclusivePurchasedBy |-> lead.exclusive_purchased_by,
                  exclusivePurchaseDate |-> lead.exclusive_purchase_date ]
    IN  IF hasContactAccess
        THEN base @@ [ firstName |-> lead.first_name, lastName |-> lead.last_name,
                       email |-> lead.email, phone |-> lead.phone,
                       address |-> lead.address ]
        ELSE base @@ [ firstName |-> "Subscribe", lastName |-> "to view",
                       email |-> "subscription@required.com", phone |-> "***-***-****",
                       address |-> "Subscription required to view address" ]

\* The demo variant reads the camel-case columns of DEMO_LEADS; DemoRow is
\* the same lead under those column names.
DemoRow(lead) ==
    [ id |-> lead.id, firstName |-> lead.first_name, lastName |-> lead.last_name,
      email |-> lead.email, phone |-> lead.phone, address |-> lead.address,
      propertyType |-> lead.property_type, timeline |-> lead.timeline,
      zipCode |-> lead.zip_code, created_at |-> lead.created_at,
      exclusivePurchasedBy |-> lead.exclusive_purchased_by,
      exclusivePurchaseDate |-> lead.exclusive_purchase_date ]

sanitizeLeadDemo(lead, user, t) ==
    LET hoursSinceSubmission == t - lead.created_at
        isInExclusiveWindow == hoursSinceSubmission < H24 /\ ~Truthy(lead.exclusivePurchasedBy)
        hasContactAccess == user.subscriptionStatus = "active"
                            /\ ~Truthy(lead.exclusivePurchasedBy)
        base == [ id |-> lead.id, propertyType |-> lead.propertyType,
                  timeline |-> lead.timeline, zipCode |-> lead.zipCode,
                  isInExclusiveWindow |-> isInExclusiveWindow,
                  exclusivePurchasedBy |-> lead.exclusivePurchasedBy,
                  exclusivePurchaseDate |-> lead.exclusivePurchaseDate ]
    IN  IF hasContactAccess
        THEN base @@ [ firstName |-> lead.firstName, lastName |-> lead.lastName,
                       email |-> lead.email, phone |-> lead.phone,
                       address |-> lead.address ]
        ELSE base @@ [ firstName |-> "Subscribe", lastName |-> "to view",
                       email |-> "subscription@required.com", phone |-> "***-***-****",
                       address |-> "Subscription required to view address" ]

(***************************************************************************)
(* Session tokens (jsonwebtoken)                                           *)
(*                                                                         *)
(* A presented token is a record: sig says whether the signature verifies  *)
(* under JWT_SECRET ("good"), does not ("bad"), or the string is not a JWT *)
(* at all ("malformed"); the other fields are the payload the login        *)
(* handlers sign (userId, email, companyName, subscriptionStatus, exp).    *)
(***************************************************************************)
UserIds == {1}
EmailOfUser(u) == IF u = 1 THEN "demo@estatesales.com" ELSE "premium@estatesales.com"
CompanyOfUser(u) == IF u = 1 THEN "Acme Estates" ELSE "Bolt Sales"

JwtToken(sig, u, status, exp) ==
    [ sig |-> sig, userId |-> u, email |-> EmailOfUser(u),
      companyName |-> CompanyOfUser(u), subscriptionStatus |-> status, exp |-> exp ]

\* jwt.verify(token, secret): throws JsonWebTokenError on a bad signature or a
\* malformed token and TokenExpiredError once the clock has reached exp;
\* otherwise returns the payload.
jwtVerify(token, t) ==
    IF token.sig # "good" THEN [ threw |-> TRUE, name |-> "JsonWebTokenError" ]
    ELSE IF t >= token.exp THEN [ threw |-> TRUE, name |-> "TokenExpiredError" ]
    ELSE [ threw |-> FALSE, decoded |-> token ]

\* The Authorization header of a request: absent, not a Bearer header, or
\* "Bearer <token>".
AuthFailure(msg) == [ success |-> FALSE, error |-> msg ]

authenticateRequest_ConsultsAccount(event, t) ==
    IF event.authHeader # "bearer"
    THEN AuthFailure("No valid authorization token provided")
    ELSE LET v == jwtVerify(event.token, t)
         IN  IF v.threw THEN AuthFailure("Invalid token")
             ELSE IF v.decoded.exp < t THEN AuthFailure("Token expired")
             ELSE IF \/ v.decoded.subscriptionStatus # "active"
                     \/ \E i \in DOMAIN Companies :
                           /\ Companies[i].email = v.decoded.email
                           /\ "subscription_status" \in DOMAIN Companies[i]
                           /\ Companies[i].subscription_status # "active"
                  THEN AuthFailure("Active subscription required")
             ELSE [ success |-> TRUE,
                    user |-> [ userId |-> v.decoded.userId, email |-> v.decoded.email,
                               companyName |-> v.decoded.companyName,
                               subscriptionStatus |-> v.decoded.subscriptionStatus ] ]

authenticateRequest_NoSubscriptionCheck(event, t) ==
    IF event.authHeader # "bearer"
    THEN AuthFailure("No valid authorization token provided")
    ELSE LET v == jwtVerify(event.token, t)
         IN  IF v.threw THEN AuthFailure("Invalid token")
             ELSE IF v.decoded.exp < t THEN AuthFailure("Token expired")
             ELSE [ success |-> TRUE,
                    user |-> [ userId |-> v.decoded.userId, email |-> v.decoded.email,
                               companyName |-> v.decoded.companyName,
                               subscriptionStatus |-> v.decoded.subscriptionStatus ] ]

authenticateRequest(event, t) ==
    IF event.authHeader # "bearer"
    THEN AuthFailure("No valid authorization token provided")
    ELSE LET v == jwtVerify(event.token, t)
         IN  IF v.threw THEN AuthFailure("Invalid token")
             ELSE IF v.decoded.exp < t THEN AuthFailure("Token expired")
             ELSE IF v.decoded.subscriptionStatus # "active"
                  THEN AuthFailure("Active subscription required")
             ELSE [ success |-> TRUE,
                    user |-> [ userId |-> v.decoded.userId, email |-> v.decoded.email,
                               companyName |-> v.decoded.companyName,
                               subscriptionStatus |-> v.decoded.subscriptionStatus ] ]

(***************************************************************************)
(* checkRateLimit of secure-leads-api.js: fixed window per (userId, ip)    *)
(***************************************************************************)
windowMsLeads == 60 \div MinutesPerTick     \* 60 * 60 * 1000 ms
maxRequestsLeads == 1000

\* Returns the answer and the map as the call leaves it.
checkRateLimit_RestartsEveryKey(storage, userId, clientIP, t) ==
    LET key == <<userId, clientIP>>
        fresh == [ count |-> 1, resetTime |-> t + windowMsLeads ]
    IN  IF key \notin DOMAIN storage
        THEN [ allowed |-> TRUE, remaining |-> maxRequestsLeads - 1,
               storage |-> (key :> fresh) @@ storage ]
        ELSE IF t > storage[key].resetTime
        THEN [ allowed |-> TRUE, remaining |-> maxRequestsLeads - 1,
               storage |-> [ k \in DOMAIN storage |-> fresh ] ]
        ELSE IF storage[key].count >= maxRequestsLeads
        THEN [ allowed |-> FALSE, remaining |-> 0, storage |-> storage ]
        ELSE [ allowed |-> TRUE,
               remaining |-> maxRequestsLeads - (storage[key].count + 1),
               storage |-> [ k \in DOMAIN storage |->
                               [ storage[k] EXCEPT !.count = @ + 1 ] ] ]

checkRateLimit(storage, userId, clientIP, t) ==
    LET key == <<userId, clientIP>>
        fresh == [ count |-> 1, resetTime |-> t + windowMsLeads ]
    IN  IF key \notin DOMAIN storage
        THEN [ allowed |-> TRUE, remaining |-> maxRequestsLeads - 1,
               storage |-> (key :> fresh) @@ storage ]
        ELSE IF t > storage[key].resetTime
        THEN [ allowed |-> TRUE, remaining |-> maxRequestsLeads - 1,
               storage |-> [storage EXCEPT ![key] = fresh] ]
        ELSE IF storage[key].count >= maxRequestsLeads
        THEN [ allowed |-> FALSE, remaining |-> 0, storage |-> storage ]
        ELSE [ allowed |-> TRUE,
               remaining |-> maxRequestsLeads - (storage[key].count + 1),
               storage |-> [storage EXCEPT ![key].count = @ + 1] ]

(***************************************************************************)
(* isRateLimited of create-checkout.js: fixed window per client address;    *)
(* the result is true when the request may proceed                         *)
(***************************************************************************)
windowMsConfig == 60 \div MinutesPerTick    \* 60 * 60 * 1000 ms
maxRequestsConfig == 60

isRateLimited_LimitOffByOne(storage, clientIP, t) ==
    LET fresh == [ count |-> 1, resetTime |-> t + windowMsConfig ]
    IN  IF clientIP \notin DOMAIN storage
        THEN [ allowed |-> TRUE, storage |-> (clientIP :> fresh) @@ storage ]
        ELSE IF t > storage[clientIP].resetTime
        THEN [ allowed |-> TRUE, storage |-> [storage EXCEPT ![clientIP] = fresh] ]
        ELSE IF storage[clientIP].count > maxRequestsConfig
        THEN [ allowed |-> FALSE, storage |-> storage ]
        ELSE [ allowed |-> TRUE, storage |-> [storage EXCEPT ![clientIP].count = @ + 1] ]

isRateLimited(storage, clientIP, t) ==
    LET fresh == [ count |-> 1, resetTime |-> t + windowMsConfig ]
    IN  IF clientIP \notin DOMAIN storage
        THEN [ allowed |-> TRUE, storage |-> (clientIP :> fresh) @@ storage ]
        ELSE IF t > storage[clientIP].resetTime
        THEN [ allowed |-> TRUE, storage |-> [storage EXCEPT ![clientIP] = fresh] ]
        ELSE IF storage[clientIP].count >= maxRequestsConfig
        THEN [ allowed |-> FALSE, storage |-> storage ]
        ELSE [ allowed |-> TRUE, storage |-> [storage EXCEPT ![clientIP].count = @ + 1] ]

(***************************************************************************)
(* The fixed window as described: a history of the calls of one key, kept  *)
(* beside the limiter's own map.  start is the time of the call that       *)
(* opened the window and n the number of calls made in it so far (counted  *)
(* up to max + 1).  `orig` restarts the window at the first call made once *)
(* start + window has been reached, `amended` at the first call made after *)
(* start + window has passed.                                              *)
(***************************************************************************)
NoWindow == [ start |-> NoDate, n |-> 0 ]

WindowAfterCall(w, restart, t, max) ==
    IF w.n = 0 \/ restart THEN [ start |-> t, n |-> 1 ]
    ELSE [ w EXCEPT !.n = IF @ > max THEN @ ELSE @ + 1 ]

ClaimedAfterCall(cw, t, window, max) ==
    [ orig |-> WindowAfterCall(cw.orig, t >= cw.orig.start + window, t, max),
      amended |-> WindowAfterCall(cw.amended, t > cw.amended.start + window, t, max) ]

(***************************************************************************)
(* Query parameters of GET /leads                                          *)
(***************************************************************************)
\* A raw query-string value is NULL (absent) or a string; numeric strings are
\* written as <<"num", n>> and non-numeric ones as <<"text">>.
Absent == <<"absent">>
Text == <<"text">>
Num(n) == <<"num", n>>

\* parseInt(limit) with the destructuring default applied to an absent value.
parseIntOr(raw, default) ==
    IF raw = Absent THEN default
    ELSE IF raw[1] = "num" THEN raw[2]
    ELSE NaN

\* JavaScript comparison: every comparison with NaN is false.
JsLt(a, b) == a # NaN /\ b # NaN /\ a < b
JsGt(a, b) == a # NaN /\ b # NaN /\ a > b

validTimelines == {"asap", "month", "1-3months", "flexible", "planning"}
validPropertyTypes == {"house", "condo", "apartment", "storage", "other"}

\* zipCode is Absent, Num(z) for a five-digit string, or Text (fails /^\d{5}$/).
validateQueryParams(params) ==
    LET limitBad == JsLt(params.limit, 1) \/ JsGt(params.limit, 100)
        offsetBad == JsLt(params.offset, 0)
        zipBad == params.zipCode # Absent /\ params.zipCode = Text
        radiusBad == JsLt(params.radius, 1) \/ JsGt(params.radius, 1000)
        timelineBad == params.timeline # NULL /\ params.timeline \notin validTimelines
        propertyBad == params.propertyType # NULL
                       /\ params.propertyType \notin validPropertyTypes
        e1 == IF limitBad THEN <<"Limit must be between 1 and 100, defaulting to 20">>
              ELSE <<>>
        e2 == IF offsetBad THEN <<"Offset must be non-negative, defaulting to 0">> ELSE <<>>
        e3 == IF zipBad THEN <<"Invalid zip code format">> ELSE <<>>
        e4 == IF radiusBad
              THEN <<"Radius must be between 1 and 1000 miles, defaulting to 25">>
              ELSE <<>>
        e5 == IF timelineBad THEN <<"Invalid timeline value">> ELSE <<>>
        e6 == IF propertyBad THEN <<"Invalid property type">> ELSE <<>>
    IN  [ params |-> [ limit |-> IF limitBad THEN 20 ELSE params.limit,
                       offset |-> IF offsetBad THEN 0 ELSE params.offset,
                       zipCode |-> IF zipBad THEN Absent ELSE params.zipCode,
                       radius |-> IF radiusBad THEN 25 ELSE params.radius,
                       timeline |-> IF timelineBad THEN NULL ELSE params.timeline,
                       propertyType |-> IF propertyBad THEN NULL ELSE params.propertyType,
                       purchased |-> params.purchased = TRUE ],
          errors |-> e1 \o e2 \o e3 \o e4 \o e5 \o e6 ]

(***************************************************************************)
(* fetchLeadsSecurely: the Supabase query of GET /leads                    *)
(***************************************************************************)
RECURSIVE OrderByCreatedAtDesc(_, _)
OrderByCreatedAtDesc(rows, ids) ==
    IF ids = {} THEN <<>>
    ELSE LET first == CHOOSE i \in ids :
                        \A j \in ids : rows[i].created_at > rows[j].created_at
                                       \/ (rows[i].created_at = rows[j].created_at /\ i <= j)
         IN  <<rows[first]>> \o OrderByCreatedAtDesc(rows, ids \ {first})

Min(a, b) == IF a < b THEN a ELSE b

\* The rows PostgREST returns for the query string the function builds, or a
\* thrown error when the request fails (dbOk = FALSE) or the query string
\* carries limit=NaN, offset=NaN or a NaN zip range.
fetchLeadsSecurely(rows, params, user, dbOk) ==
    LET zipGiven == params.zipCode # Absent
        zipRange == IF params.radius = NaN THEN NaN ELSE params.radius \div 10
        queryBad == params.limit = NaN \/ params.offset = NaN
                    \/ (zipGiven /\ zipRange = NaN)
        matches(r) ==
            /\ (params.timeline # NULL => r.timeline = params.timeline)
            /\ (params.propertyType # NULL => r.property_type = params.propertyType)
            /\ (zipGiven => /\ r.zip_code >= params.zipCode[2] - zipRange
                            /\ r.zip_code <= params.zipCode[2] + zipRange)
            /\ r.exclusive_purchased_by # user.companyName
        ids == { i \in DOMAIN rows : matches(rows[i]) }
        ordered == OrderByCreatedAtDesc(rows, ids)
    IN  IF ~dbOk \/ queryBad
        THEN [ threw |-> TRUE, leads |-> <<>> ]
        ELSE [ threw |-> FALSE,
               leads |-> SubSeq(ordered, params.offset + 1,
                                Min(Len(ordered), params.offset + params.limit)) ]

(***************************************************************************)
(* Responses                                                               *)
(***************************************************************************)
NoResp == [ op |-> "none" ]

SeqMap(f(_), s) == [ i \in 1..Len(s) |-> f(s[i]) ]
SeqRange(s) == { s[i] : i \in 1..Len(s) }

(***************************************************************************)
(* GET /leads (secure-leads-api.js, production handler)                    *)
(***************************************************************************)
\* The destructured query string with its defaults, as handed to
\* validateQueryParams.
parsedParams(q) ==
    [ limit |-> parseIntOr(q.limit, 20), offset |-> parseIntOr(q.offset, 0),
      zipCode |-> q.zipCode, radius |-> parseIntOr(q.radius, 25),
      timeline |-> q.timeline, propertyType |-> q.propertyType,
      purchased |-> q.purchased = "true" ]

\* leads.map(lead => sanitizeLead(lead, user)): every listed row is projected
\* during the request that lists it.
sanitizeLeads_ReusesSubmissionProjection(leads, user, t) ==
    SeqMap(LAMBDA lead : sanitizeLead([lead EXCEPT !.exclusive_purchased_by = NULL,
                                                   !.exclusive_purchase_date = NoDate],
                                      user, lead.created_at), leads)
sanitizeLeads(leads, user, t) ==
    SeqMap(LAMBDA lead : sanitizeLead(lead, user, t), leads)

\* event: authHeader, token, clientIP (NULL when the header is absent) and
\* the raw query string values.
GetLeads(event, dbOk) ==
    LET authResult == authenticateRequest(event, now)
        user == authResult.user
        clientIP == IF event.clientIP # NULL THEN event.clientIP ELSE "unknown"
        rateLimitResult == checkRateLimit(leadsRateLimitStorage, user.userId, clientIP, now)
        q == event.query
        validatedParams == validateQueryParams(parsedParams(q))
        fetched == fetchLeadsSecurely(Leads, validatedParams.params, user, dbOk)
        sanitizedLeads == sanitizeLeads(fetched.leads, user, now)
        answer(code, body) == [ op |-> "GET /leads", event |-> event,
                                statusCode |-> code, body |-> body ]
    IN  /\ UNCHANGED <<now, Leads, limiterVars, accountVars>>
        /\ IF ~authResult.success
           THEN /\ resp' = answer(401, [ error |-> authResult.error ])
                /\ UNCHANGED <<leadsRateLimitStorage, seenOutsideWindow>>
           ELSE /\ leadsRateLimitStorage' = rateLimitResult.storage
                /\ IF ~rateLimitResult.allowed
                   THEN /\ resp' = answer(429,
                                [ error |-> "Too many requests. Please try again later.",
                                  retryAfter |-> 3600 ])
                        /\ UNCHANGED seenOutsideWindow
                   ELSE IF Len(validatedParams.errors) > 0
                   THEN /\ resp' = answer(400, [ error |-> "Invalid parameters",
                                                 details |-> validatedParams.errors ])
                        /\ UNCHANGED seenOutsideWindow
                   ELSE IF fetched.threw
                   THEN /\ resp' = answer(500, [ error |-> "Internal server error" ])
                        /\ UNCHANGED seenOutsideWindow
                   ELSE /\ resp' = answer(200,
                               [ success |-> TRUE, data |-> sanitizedLeads,
                                 meta |-> [ count |-> Len(sanitizedLeads),
                                            offset |-> validatedParams.params.offset,
                                            limit |-> validatedParams.params.limit,
                                            hasMore |-> Len(sanitizedLeads)
                                                        = validatedParams.params.limit ] ])
                        /\ seenOutsideWindow' = seenOutsideWindow \cup
                               { p.id : p \in { x \in SeqRange(sanitizedLeads) :
                                                ~x.isInExclusiveWindow } }

(***************************************************************************)
(* POST /auth-verify (auth-verify.js)                                      *)
(***************************************************************************)
\* event: authHeader and token as for GET /leads (only the lower-case header
\* is read), and body: "empty" (no body: '{}' is parsed), "badjson" (JSON.parse
\* throws), "token" (a JSON body carrying bodyToken) or "json" (carrying none).
AuthVerify(event) ==
    LET fromHeader == event.authHeader = "bearer"
        hasToken == fromHeader \/ event.body = "token"
        jwtToken == IF fromHeader THEN event.token ELSE event.bodyToken
        v == jwtVerify(jwtToken, now)
        answer(code, body) == [ op |-> "POST /auth-verify", event |-> event,
                                statusCode |-> code, body |-> body ]
    IN  /\ resp' = IF event.body = "badjson" THEN answer(401, [ error |-> "Invalid token" ])
                   ELSE IF ~hasToken THEN answer(401, [ error |-> "No token provided" ])
                   ELSE IF v.threw THEN answer(401, [ error |-> "Invalid token" ])
                   ELSE IF v.decoded.exp < now THEN answer(401, [ error |-> "Token expired" ])
                   ELSE answer(200, [ valid |-> TRUE,
                                      user |-> [ id |-> v.decoded.userId,
                                                 email |-> v.decoded.email,
                                                 companyName |-> v.decoded.companyName,
                                                 subscriptionStatus |->
                                                     v.decoded.subscriptionStatus ] ])
        /\ UNCHANGED <<now, leadVars, leadsRateLimitStorage, limiterVars, accountVars>>

(***************************************************************************)
(* sanitizeLead applied on its own to a stored lead, for any caller        *)
(***************************************************************************)
ApplySanitize(id, status, variant) ==
    LET user == [ subscriptionStatus |-> status ]
        out == IF variant = "demo"
               THEN sanitizeLeadDemo(DemoRow(Leads[id]), user, now)
               ELSE sanitizeLead(Leads[id], user, now)
    IN  /\ resp' = [ op |-> "sanitizeLead", variant |-> variant, lead |-> Leads[id],
                     user |-> user, out |-> out ]
        /\ seenOutsideWindow' = IF out.isInExclusiveWindow THEN seenOutsideWindow
                                ELSE seenOutsideWindow \cup {id}
        /\ UNCHANGED <<now, Leads, leadsRateLimitStorage, limiterVars, accountVars>>

(***************************************************************************)
(* POST /webhook (stripe-webhook.js)                                       *)
(***************************************************************************)
WebhookAnswer(code, body) == [ op |-> "POST /webhook", statusCode |-> code, body |-> body ]

\* PATCH Leads?id=eq.leadId: every row with that id takes the new columns.
\* JSON.stringify drops exclusive_purchased_by when companyName is undefined
\* (written NULL here), so the buyer column keeps its value then.
updateLeadExclusivePurchase(rows, leadId, companyName, t, dbOk) ==
    IF ~dbOk THEN rows
    ELSE [ i \in DOMAIN rows |->
             IF rows[i].id = leadId
             THEN [ rows[i] EXCEPT
                      !.exclusive_purchased_by = IF companyName = NULL THEN @ ELSE companyName,
                      !.exclusive_purchase_date = t ]
             ELSE rows[i] ]

\* A signature-verified checkout.session.completed event whose metadata says
\* type = 'exclusive' and carries a leadId.
WebhookCheckoutExclusive(leadId, companyName, dbOk) ==
    /\ Leads' = updateLeadExclusivePurchase(Leads, leadId, companyName, now, dbOk)
    /\ resp' = WebhookAnswer(200, [ received |-> TRUE ])
    /\ UNCHANGED <<now, seenOutsideWindow, leadsRateLimitStorage, limiterVars, accountVars>>

(***************************************************************************)
(* The clock                                                               *)
(***************************************************************************)
Tick(max) ==
    /\ now < max
    /\ now' = now + 1
    /\ resp' = NoResp
    /\ UNCHANGED <<leadVars, leadsRateLimitStorage, limiterVars, accountVars>>

(***************************************************************************)
(* Initial state: the function instances have just started (empty maps);   *)
(* the Leads table holds leads submitted earlier, none purchased.          *)
(***************************************************************************)
Init ==
    /\ now = 0
    /\ Leads = [ i \in LeadIds |-> NewLeadRow(i, CreatedAtOf(i)) ]
    /\ resp = NoResp
    /\ seenOutsideWindow = {}
    /\ leadsRateLimitStorage = << >>
    /\ configRateLimitStorage = << >>
    /\ claimedWindow = [ orig |-> NoWindow, amended |-> NoWindow ]
    /\ Companies = << >>
    /\ inflight = [ s \in 1..MaxInFlight |-> [ op |-> "idle" ] ]
    /\ nextToken = 1
    /\ rateLimitStore = << >>
    /\ verifiedTokens = {}
    /\ resendLog = << >>

(***************************************************************************)
(* Requests drawn in the specifications                                    *)
(***************************************************************************)
DefaultQuery == [ limit |-> Absent, offset |-> Absent, zipCode |-> Absent,
                  radius |-> Absent, timeline |-> NULL, propertyType |-> NULL,
                  purchased |-> "false" ]

QueryChoices ==
    { DefaultQuery,
      [DefaultQuery EXCEPT !.limit = Num(1)],
      [DefaultQuery EXCEPT !.limit = Num(1), !.offset = Num(1)],
      [DefaultQuery EXCEPT !.timeline = "asap"],
      [DefaultQuery EXCEPT !.limit = Num(0)] }

ExpChoices == 0..(MaxTimeLeads + 1)

GoodTokens == { JwtToken("good", u, st, e) :
                  u \in UserIds, st \in SubscriptionStatuses, e \in ExpChoices }
ForgedTokens == { JwtToken(sg, 1, "active", MaxTimeLeads + 1) : sg \in {"bad", "malformed"} }
NoToken == JwtToken("malformed", 1, "none", 0)

LeadsEvent(h, tok, ip, q) == [ authHeader |-> h, token |-> tok, clientIP |-> ip, query |-> q ]

\* Requests of subscribers holding a token that outlives the model's clock.
SubscriberEvents ==
    { LeadsEvent("bearer", JwtToken("good", u, "active", MaxTimeLeads + 1), "203.0.113.7", q) :
        u \in UserIds, q \in QueryChoices }

BelowCallCap(event) ==
    LET a == authenticateRequest(event, now)
        key == <<a.user.userId, IF event.clientIP # NULL THEN event.clientIP ELSE "unknown">>
    IN  a.success /\ key \in DOMAIN leadsRateLimitStorage
        => leadsRateLimitStorage[key].count < MaxCallsLeads

(***************************************************************************)
(* Specification of the lead marketplace: listing, projection, exclusive   *)
(* purchase, time                                                          *)
(***************************************************************************)
LeadsTick == Tick(MaxTimeLeads)

LeadsList ==
    \E event \in SubscriberEvents, dbOk \in BOOLEAN :
        BelowCallCap(event) /\ GetLeads(event, dbOk)

LeadsProject ==
    \E id \in LeadIds, status \in SubscriptionStatuses, variant \in {"production", "demo"} :
        ApplySanitize(id, status, variant)

LeadsPurchase ==
    \E leadId \in LeadIds \cup {NumLeads + 1}, companyName \in CompanyNames \cup {NULL},
       dbOk \in BOOLEAN :
        WebhookCheckoutExclusive(leadId, companyName, dbOk)

NextLeads == LeadsTick \/ LeadsList \/ LeadsProject \/ LeadsPurchase

SpecLeads == Init /\ [][NextLeads]_vars

(***************************************************************************)
(* Properties of the lead marketplace                                      *)
(***************************************************************************)
ContactFields(r) == <<r.firstName, r.lastName, r.email, r.phone, r.address>>
StoredContact(row) == <<row.first_name, row.last_name, row.email, row.phone, row.address>>
Placeholders == <<"Subscribe", "to view", "subscription@required.com", "***-***-****",
                  "Subscription required to view address">>

\* C1: sanitizeLead (either variant), applied to any stored lead for any
\* caller, returns the five stored contact values when the caller's
\* subscriptionStatus is 'active' and the lead has no exclusive buyer, and
\* exactly the five placeholder values in every other case; it never returns
\* a mix of the two.
C1_ContactAllOrPlaceholders ==
    resp.op = "sanitizeLead" =>
        LET access == resp.user.subscriptionStatus = "active"
                      /\ resp.lead.exclusive_purchased_by = NULL
        IN  /\ ContactFields(resp.out) \in {StoredContact(resp.lead), Placeholders}
            /\ (access => ContactFields(resp.out) = StoredContact(resp.lead))
            /\ (~access => ContactFields(resp.out) = Placeholders)

\* An active subscriber is shown placeholders for an exclusively purchased lead.
C1_Witness ==
    /\ resp.op = "sanitizeLead"
    /\ resp.user.subscriptionStatus = "active"
    /\ resp.lead.exclusive_purchased_by \in CompanyNames
    /\ ContactFields(resp.out) = Placeholders

\* C2: once exclusive_purchased_by is recorded for a lead, no later
\* checkout.session.completed event changes or clears the buyer or the
\* purchase timestamp of that lead.
C2_ExclusiveBuyerNeverChanges ==
    [][ \A i \in LeadIds :
          Leads[i].exclusive_purchased_by # NULL =>
              /\ Leads'[i].exclusive_purchased_by = Leads[i].exclusive_purchased_by
              /\ Leads'[i].exclusive_purchase_date = Leads[i].exclusive_purchase_date ]_vars

\* The isInExclusiveWindow values the last step computed, with the lead read.
WindowReads ==
    IF resp.op = "sanitizeLead"
    THEN { <<resp.lead.id, resp.out.isInExclusiveWindow>> }
    ELSE IF resp.op = "GET /leads" /\ resp.statusCode = 200
    THEN { <<p.id, p.isInExclusiveWindow>> : p \in SeqRange(resp.body.data) }
    ELSE {}

\* C3: every read of a lead computes isInExclusiveWindow = true exactly when
\* less than 24 hours have passed since created_at and the lead has no
\* exclusive buyer, and no read computes true for a lead for which an earlier
\* read computed false.
C3_WindowExactAndNeverReopens ==
    \A r \in WindowReads :
        /\ r[2] = ( now - Leads[r[1]].created_at < H24
                    /\ Leads[r[1]].exclusive_purchased_by = NULL )
        /\ (r[2] => r[1] \notin seenOutsideWindow)

\* A listing shows a lead that is less than 24 hours old outside its window
\* because it was bought, after an earlier read.
C3_Witness ==
    \E r \in WindowReads :
        /\ resp.op = "GET /leads"
        /\ r[2] = FALSE
        /\ now - Leads[r[1]].created_at < H24
        /\ Leads[r[1]].exclusive_purchased_by # NULL
        /\ r[1] \in seenOutsideWindow

(***************************************************************************)
(* Specification of token verification: GET /leads and POST /auth-verify   *)
(* under every kind of Authorization header and token                      *)
(***************************************************************************)
PresentedTokens == GoodTokens \cup ForgedTokens

AnyLeadsEvents ==
    { LeadsEvent(h, tok, ip, q) :
        h \in {"bearer"}, tok \in PresentedTokens, ip \in {NULL, "203.0.113.7"},
        q \in {DefaultQuery, [DefaultQuery EXCEPT !.limit = Num(0)]} }
    \cup { LeadsEvent(h, NoToken, NULL, DefaultQuery) : h \in {"none", "basic"} }

VerifyEvent(h, tok, body, btok) ==
    [ authHeader |-> h, token |-> tok, body |-> body, bodyToken |-> btok ]

AnyVerifyEvents ==
    { VerifyEvent("bearer", tok, "empty", NoToken) : tok \in PresentedTokens }
    \cup { VerifyEvent(h, NoToken, "token", tok) : h \in {"none", "basic"},
                                                    tok \in PresentedTokens }
    \cup { VerifyEvent(h, NoToken, b, NoToken) : h \in {"none", "basic"},
                                                 b \in {"empty", "json", "badjson"} }

AuthTick == Tick(MaxTimeLeads)

AuthLeads ==
    \E event \in AnyLeadsEvents, dbOk \in BOOLEAN :
        BelowCallCap(event) /\ GetLeads(event, dbOk)

AuthCheck == \E event \in AnyVerifyEvents : AuthVerify(event)

NextAuth == AuthTick \/ AuthLeads \/ AuthCheck

SpecAuth == Init /\ [][NextAuth]_vars

(***************************************************************************)
(* Properties of token verification                                        *)
(***************************************************************************)
\* The token a request presents, and whether it presents one.
PresentsToken(r) ==
    IF r.op = "POST /auth-verify"
    THEN r.event.body # "badjson" /\ (r.event.authHeader = "bearer" \/ r.event.body = "token")
    ELSE r.event.authHeader = "bearer"

PresentedToken(r) ==
    IF r.op = "POST /auth-verify" /\ r.event.authHeader # "bearer"
    THEN r.event.bodyToken ELSE r.event.token

ClaimsOf(tok) == [ userId |-> tok.userId, email |-> tok.email,
                   companyName |-> tok.companyName,
                   subscriptionStatus |-> tok.subscriptionStatus ]

\* C9: POST /auth-verify rejects a token whose signature is bad or that cannot
\* be decoded with 'Invalid token', rejects a correctly signed token whose exp
\* has passed with 'Token expired', and answers any other token (exp still
\* ahead) with its decoded claims; GET /leads gives the same two error
\* messages for the same two kinds of token.
C9_TokenFailuresClassified ==
    (resp.op \in {"POST /auth-verify", "GET /leads"} /\ PresentsToken(resp)) =>
        LET tok == PresentedToken(resp)
        IN  /\ tok.sig # "good" =>
                 resp.statusCode = 401 /\ resp.body.error = "Invalid token"
            /\ (tok.sig = "good" /\ tok.exp < now) =>
                 resp.statusCode = 401 /\ resp.body.error = "Token expired"
            /\ (tok.sig = "good" /\ tok.exp > now /\ resp.op = "POST /auth-verify") =>
                 /\ resp.statusCode = 200
                 /\ [ userId |-> resp.body.user.id, email |-> resp.body.user.email,
                      companyName |-> resp.body.user.companyName,
                      subscriptionStatus |-> resp.body.user.subscriptionStatus ]
                    = ClaimsOf(tok)

\* C10: GET /leads answers 200 only to a request whose Bearer token verifies,
\* is unexpired and carries subscriptionStatus 'active'; a request with no
\* Bearer token, a token that does not verify, an expired token or any other
\* subscriptionStatus is answered 401 with an error body that holds no lead.
C10_LeadsOnlyForActiveSubscribers ==
    resp.op = "GET /leads" =>
        LET ev == resp.event
            entitled == /\ ev.authHeader = "bearer"
                        /\ ev.token.sig = "good"
                        /\ now < ev.token.exp
                        /\ ev.token.subscriptionStatus = "active"
        IN  /\ resp.statusCode = 200 => entitled
            /\ ~entitled => /\ resp.statusCode = 401
                            /\ DOMAIN resp.body = {"error"}

\* A verified, unexpired token of a cancelled subscription is turned away.
C10_Witness ==
    /\ resp.op = "GET /leads"
    /\ resp.event.authHeader = "bearer"
    /\ resp.event.token.sig = "good"
    /\ now < resp.event.token.exp
    /\ resp.event.token.subscriptionStatus = "cancelled"
    /\ resp.statusCode = 401
    /\ resp.body.error = "Active subscription required"

(***************************************************************************)
(* Specification of the fixed-window limiters: calls of one key of one     *)
(* limiter (each function instance owns its map), and the clock            *)
(***************************************************************************)
CallCheckRateLimit(userId, clientIP) ==
    LET r == checkRateLimit(leadsRateLimitStorage, userId, clientIP, now)
    IN  /\ leadsRateLimitStorage' = r.storage
        /\ claimedWindow' = ClaimedAfterCall(claimedWindow, now, windowMsLeads, maxRequestsLeads)
        /\ resp' = [ op |-> "checkRateLimit", key |-> <<userId, clientIP>>,
                     allowed |-> r.allowed ]
        /\ UNCHANGED <<now, leadVars, configRateLimitStorage, accountVars>>

CallIsRateLimited(clientIP) ==
    LET r == isRateLimited(configRateLimitStorage, clientIP, now)
    IN  /\ configRateLimitStorage' = r.storage
        /\ claimedWindow' = ClaimedAfterCall(claimedWindow, now, windowMsConfig,
                                             maxRequestsConfig)
        /\ resp' = [ op |-> "isRateLimited", key |-> clientIP, allowed |-> r.allowed ]
        /\ UNCHANGED <<now, leadVars, leadsRateLimitStorage, accountVars>>

RateTick == Tick(MaxTimeRate)

RateLeads == configRateLimitStorage = << >> /\ CallCheckRateLimit(1, "203.0.113.7")

RateConfig == leadsRateLimitStorage = << >> /\ CallIsRateLimited("203.0.113.7")

NextRate == RateTick \/ RateLeads \/ RateConfig

SpecRate == Init /\ [][NextRate]_vars

(***************************************************************************)
(* Properties of the fixed-window limiters                                 *)
(***************************************************************************)
LimiterCall == resp.op \in {"checkRateLimit", "isRateLimited"}
LimiterMax == IF resp.op = "checkRateLimit" THEN maxRequestsLeads ELSE maxRequestsConfig
LimiterWindow == IF resp.op = "checkRateLimit" THEN windowMsLeads ELSE windowMsConfig
LimiterEntry == IF resp.op = "checkRateLimit" THEN leadsRateLimitStorage[resp.key]
                ELSE configRateLimitStorage[resp.key]

\* The answers of the limiter agree with the window w: the call is allowed
\* exactly when it is among the first max calls of its window, and a call that
\* opens a window leaves count 1 and reset time now + window in the map.
AgreesWithWindow(w) ==
    LimiterCall =>
        /\ resp.allowed <=> w.n <= LimiterMax
        /\ w.n = 1 => LimiterEntry = [ count |-> 1, resetTime |-> now + LimiterWindow ]

\* C7 as stated: with the same key, the first N calls of a window are allowed
\* and the (N+1)-th is rejected, and the first call made once the reset time
\* has been reached (now >= reset time) is allowed and restarts the window
\* with count 1 and reset time now + W.
C7_WindowRestartsAtResetTime == AgreesWithWindow(claimedWindow.orig)

\* C7 as amended: the same, with the restart at the first call made after the
\* reset time has passed (now > reset time); a call made exactly at the reset
\* time still counts in the old window.
C7_WindowRestartsAfterResetTime == AgreesWithWindow(claimedWindow.amended)

\* A window of GET /leads' limiter was restarted after its reset time had
\* passed, and the 1001st call of the new window is rejected.
C7_Witness ==
    /\ resp.op = "checkRateLimit"
    /\ ~resp.allowed
    /\ claimedWindow.amended.start > windowMsLeads
    /\ claimedWindow.amended.n = maxRequestsLeads + 1

(***************************************************************************)
(* The Companies table behind the accounts functions.  A row carries the   *)
(* columns its INSERT and later PATCHes wrote; a column never written is   *)
(* absent from the record, which a reader sees as null.                    *)
(***************************************************************************)
NullToken == 0          \* verification_token: null
Idle == [ op |-> "idle" ]
Slots == 1..MaxInFlight

Has(row, column) == column \in DOMAIN row
emailVerified(row) == Has(row, "email_verified") /\ row.email_verified
tokenOf(row) == IF Has(row, "verification_token") THEN row.verification_token ELSE NullToken

\* PATCH <table>?<column>=eq.<value>: the listed columns are written on every
\* matching row.
Patch(rows, column, value, update) ==
    [ i \in 1..Len(rows) |->
        IF Has(rows[i], column) /\ rows[i][column] = value
        THEN update @@ rows[i] ELSE rows[i] ]

\* POST <table>: the datastore assigns the id.
Insert(rows, data) == Append(rows, [ id |-> Len(rows) + 1 ] @@ data)

\* email.trim().toLowerCase() and the format test, on the addresses presented.
OwnerEmail == "owner@acme.test"
PresentedEmails == { OwnerEmail, " Owner@Acme.test", "not-an-email" }
cleanEmailOf(email) ==
    IF email = " Owner@Acme.test" THEN OwnerEmail ELSE IF email = "   " THEN "" ELSE email
emailRegexTest(email) == email = OwnerEmail

AccountAnswer(op, statusCode, body) == [ op |-> op, statusCode |-> statusCode, body |-> body ]

(***************************************************************************)
(* JavaScript values of a request body.  A field is absent, a number or a  *)
(* string; a string is the sequence of its characters, except an email     *)
(* address, which is one of the addresses presented.                       *)
(***************************************************************************)
Str(chars) == <<"str", chars>>
typeofString(v) == v[1] = "str"
\* !v is false for a number other than 0 and for a non-empty string.
truthy(v) == v[1] = "num" \/ (v[1] = "str" /\ v[2] # <<>>)
truthyEmail(v) == v[1] = "num" \/ (v[1] = "str" /\ v[2] # "")

Digit == { "0", "1", "2", "3", "4", "5", "6", "7", "8", "9" }
LowerCase == { "a", "b", "c", "d", "e", "f", "g", "h", "i", "j", "k", "l", "m",
               "n", "o", "p", "q", "r", "s", "t", "u", "v", "w", "x", "y", "z" }
UpperCase == { "A", "B", "C", "D", "E", "F", "G", "H", "I", "J", "K", "L", "M",
               "N", "O", "P", "Q", "R", "S", "T", "U", "V", "W", "X", "Y", "Z" }
WhiteSpace == { " " }

\* String.prototype.trim
RECURSIVE trimStart(_)
trimStart(s) == IF s # <<>> /\ Head(s) \in WhiteSpace THEN trimStart(Tail(s)) ELSE s
RECURSIVE trimEnd(_)
trimEnd(s) ==
    IF s # <<>> /\ s[Len(s)] \in WhiteSpace THEN trimEnd(SubSeq(s, 1, Len(s) - 1)) ELSE s
trim(s) == trimEnd(trimStart(s))

\* replace(/<[^>]*>/g, ''): every "<" followed later by a ">" goes with all
\* that is between them.
RECURSIVE removeTags(_)
removeTags(s) ==
    IF \A i \in 1..Len(s) : s[i] # "<" THEN s
    ELSE IF Head(s) = "<" /\ \E i \in 2..Len(s) : s[i] = ">"
    THEN LET close == CHOOSE i \in 2..Len(s) :
                         s[i] = ">" /\ \A j \in 2..(i - 1) : s[j] # ">"
         IN  removeTags(SubSeq(s, close + 1, Len(s)))
    ELSE <<Head(s)>> \o removeTags(Tail(s))

\* sanitizeText of both validators.  The replacements of script and iframe
\* elements, of "javascript:" and of event-handler attributes leave the
\* strings presented here as they are; the removal of tags, the trim and the
\* truncation act on them.
sanitizeText(input, maxLength) ==
    IF ~typeofString(input) THEN <<>>
    ELSE LET cleaned == trim(removeTags(input[2]))
         IN  IF Len(cleaned) > maxLength THEN SubSeq(cleaned, 1, maxLength) ELSE cleaned

PhoneCharacters == Digit \cup { "+", "-", "(", ")", " " }
PhoneBodyCharacters == Digit \cup { "-", " ", "(", ")" }
PasswordCharacters ==
    LowerCase \cup UpperCase \cup Digit \cup { "@", "$", "!", "%", "*", "?", "&" }

\* replace(/[^0-9+\-() ]/g, '').trim()
cleanPhoneOf(s) == trim(SelectSeq(s, LAMBDA ch : ch \in PhoneCharacters))

\* /^[\+]?[1-9][\d\-\s\(\)]{8,}$/
phoneRegexTest(s) ==
    LET rest == IF s # <<>> /\ Head(s) = "+" THEN Tail(s) ELSE s
    IN  /\ Len(rest) >= 9
        /\ rest[1] \in Digit \ { "0" }
        /\ \A i \in 2..Len(rest) : rest[i] \in PhoneBodyCharacters

\* /^(?=.*[a-z])(?=.*[A-Z])(?=.*\d)[a-zA-Z\d@$!%*?&]{8,}$/ on String(value)
passwordRegexTest(s) ==
    /\ \E i \in 1..Len(s) : s[i] \in LowerCase
    /\ \E i \in 1..Len(s) : s[i] \in UpperCase
    /\ \E i \in 1..Len(s) : s[i] \in Digit
    /\ Len(s) >= 8
    /\ \A i \in 1..Len(s) : s[i] \in PasswordCharacters

\* String(value) of a field that is present.
toStringOf(v) == IF v[1] = "num" THEN <<"1", "2", "3">> ELSE v[2]

requiredFields ==
    <<"firstName", "lastName", "companyName", "email", "phone", "password",
      "confirmPassword", "businessAddress", "businessType", "yearsInBusiness", "serviceAreas">>

requiredMessage ==
    [ firstName |-> "firstName is required",
      lastName |-> "lastName is required",
      companyName |-> "companyName is required",
      email |-> "email is required",
      phone |-> "phone is required",
      password |-> "password is required",
      confirmPassword |-> "confirmPassword is required",
      businessAddress |-> "businessAddress is required",
      businessType |-> "businessType is required",
      yearsInBusiness |-> "yearsInBusiness is required",
      serviceAreas |-> "serviceAreas is required" ]

validBusinessTypes ==
    { <<"e", "s", "t", "a", "t", "e", "_", "s", "a", "l", "e", "_", "c", "o", "m", "p", "a", "n", "y">>,
      <<"a", "u", "c", "t", "i", "o", "n", "_", "h", "o", "u", "s", "e">>,
      <<"l", "i", "q", "u", "i", "d", "a", "t", "i", "o", "n", "_", "s", "e", "r", "v", "i", "c", "e">>,
      <<"a", "n", "t", "i", "q", "u", "e", "_", "d", "e", "a", "l", "e", "r">>,
      <<"c", "o", "n", "s", "i", "g", "n", "m", "e", "n", "t", "_", "s", "h", "o", "p">>,
      <<"o", "t", "h", "e", "r">> }

validYears == { <<"0", "-", "1">>,
                <<"1", "-", "3">>,
                <<"3", "-", "5">>,
                <<"5", "-", "1", "0">>,
                <<"1", "0", "+">> }

\* The errors of the loop over requiredFields, in its order.
RECURSIVE requiredErrors(_, _)
requiredErrors(data, fields) ==
    IF fields = <<>> THEN <<>>
    ELSE LET field == Head(fields)
             v == data[field]
             missing == IF field = "email"
                        THEN ~truthyEmail(v) \/ ~typeofString(v) \/ cleanEmailOf(v[2]) = ""
                        ELSE ~truthy(v) \/ ~typeofString(v) \/ trim(v[2]) = <<>>
         IN  (IF missing THEN <<requiredMessage[field]>> ELSE <<>>)
                \o requiredErrors(data, Tail(fields))

\* A text field that is present is sanitized and must keep minLength characters.
textErrors(v, maxLength, minLength, message) ==
    IF truthy(v) /\ Len(sanitizeText(v, maxLength)) < minLength THEN <<message>> ELSE <<>>

\* data.email.trim() and data.phone.replace(...) throw a TypeError on a number.
signupValidationThrows(data) ==
    \/ truthyEmail(data.email) /\ ~typeofString(data.email)
    \/ truthy(data.phone) /\ ~typeofString(data.phone)

signupErrors(data) ==
    requiredErrors(data, requiredFields)
    \o textErrors(data.firstName, 50, 2, "First name must be at least 2 characters")
    \o textErrors(data.lastName, 50, 2, "Last name must be at least 2 characters")
    \o textErrors(data.companyName, 100, 2, "Company name must be at least 2 characters")
    \o (IF truthyEmail(data.email) /\ ~emailRegexTest(cleanEmailOf(data.email[2]))
        THEN <<"Invalid email format">> ELSE <<>>)
    \o (IF truthy(data.phone) /\ ~phoneRegexTest(cleanPhoneOf(data.phone[2]))
        THEN <<"Invalid phone number format">> ELSE <<>>)
    \o (IF ~truthy(data.password) THEN <<>>
        ELSE IF ~passwordRegexTest(toStringOf(data.password))
        THEN <<"Password must be at least 8 characters with uppercase, lowercase, and number">>
        ELSE IF data.password # data.confirmPassword
        THEN <<"Passwords do not match">>
        ELSE <<>>)
    \o textErrors(data.businessAddress, 200, 10, "Business address must be complete")
    \o (IF truthy(data.businessType)
           /\ ~(typeofString(data.businessType) /\ data.businessType[2] \in validBusinessTypes)
        THEN <<"Invalid business type">> ELSE <<>>)
    \o (IF truthy(data.yearsInBusiness)
           /\ ~(typeofString(data.yearsInBusiness) /\ data.yearsInBusiness[2] \in validYears)
        THEN <<"Invalid years in business">> ELSE <<>>)
    \o textErrors(data.serviceAreas, 500, 5, "Service areas must be at least 5 characters")
    \o (IF ~data.termsAgreement THEN <<"Terms of service agreement is required">> ELSE <<>>)
    \o (IF ~data.backgroundCheck THEN <<"Background check consent is required">> ELSE <<>>)
    \o (IF ~data.professionalConduct
        THEN <<"Professional conduct agreement is required">> ELSE <<>>)

(***************************************************************************)
(* company-signup.js                                                       *)
(***************************************************************************)
\* The result of validateSignupData, or threw when it raises a TypeError.
validateSignupData(data) ==
    IF signupValidationThrows(data)
    THEN [ threw |-> TRUE, isValid |-> FALSE, errors |-> <<>>,
           data |-> [ email |-> "", companyName |-> <<>> ] ]
    ELSE LET errors == signupErrors(data)
         IN [ threw |-> FALSE,
           isValid |-> errors = <<>>,
           errors |-> errors,
           data |-> [ email |-> IF typeofString(data.email)
                                THEN cleanEmailOf(data.email[2]) ELSE "",
                      companyName |-> sanitizeText(data.companyName, 100) ] ]

\* A failed lookup is answered with "does not exist".
checkExistingUser(rows, email, dbOk) ==
    dbOk /\ \E i \in 1..Len(rows) : rows[i].email = email

\* generateVerificationToken: 32 characters drawn from characters.  The rows
\* hold the number n of the token, the n-th one generated; this is its text.
\* randomIndex stands for Math.floor(Math.random() * characters.length) of
\* the i-th draw.
characters ==
    <<"A", "B", "C", "D", "E", "F", "G", "H", "I", "J", "K", "L", "M",
      "N", "O", "P", "Q", "R", "S", "T", "U", "V", "W", "X", "Y", "Z",
      "a", "b", "c", "d", "e", "f", "g", "h", "i", "j", "k", "l", "m",
      "n", "o", "p", "q", "r", "s", "t", "u", "v", "w", "x", "y", "z",
      "0", "1", "2", "3", "4", "5", "6", "7", "8", "9">>
tokenLength == 32
randomIndex(n, i) == (31 * n + 7 * i) % Len(characters)
generateVerificationToken(n) == [ i \in 1..tokenLength |-> characters[randomIndex(n, i) + 1] ]

saveCompanyToDatabase_StoresOnFailure(rows, companyData, dbOk) ==
    IF dbOk THEN [ success |-> TRUE, rows |-> Insert(rows, companyData),
                   companyId |-> Len(rows) + 1 ]
    ELSE [ success |-> FALSE, rows |-> Insert(rows, companyData), companyId |-> 0 ]

saveCompanyToDatabase(rows, companyData, dbOk) ==
    IF dbOk THEN [ success |-> TRUE, rows |-> Insert(rows, companyData),
                   companyId |-> Len(rows) + 1 ]
    ELSE [ success |-> FALSE, rows |-> rows, companyId |-> 0 ]

\* A body that JSON.parse rejects.
InvalidJson == [ parseError |-> TRUE ]

\* JSON.parse, validation and the existence check: answers 400 or 409 (500
\* when the validator throws), or goes on to save.
SignupCheck(slot, requestData, dbOk) ==
    LET parsed == "parseError" \notin DOMAIN requestData
        validationResult == validateSignupData(requestData)
        sanitizedData == validationResult.data
    IN  /\ inflight[slot] = Idle
        /\ IF ~parsed
           THEN /\ resp' = AccountAnswer("POST /company-signup", 400, "Invalid JSON")
                /\ UNCHANGED inflight
           ELSE IF validationResult.threw
           THEN /\ resp' = AccountAnswer("POST /company-signup", 500, "Internal server error")
                /\ UNCHANGED inflight
           ELSE IF ~validationResult.isValid
           THEN /\ resp' = AccountAnswer("POST /company-signup", 400, "Validation failed")
                /\ UNCHANGED inflight
           ELSE IF checkExistingUser(Companies, sanitizedData.email, dbOk)
           THEN /\ resp' = AccountAnswer("POST /company-signup", 409, "already exists")
                /\ UNCHANGED inflight
           ELSE /\ resp' = NoResp
                /\ inflight' = [inflight EXCEPT ![slot] =
                                   [ op |-> "signup", data |-> sanitizedData ]]
        /\ UNCHANGED <<now, leadVars, leadsRateLimitStorage, limiterVars, Companies,
                       nextToken, rateLimitStore, verifiedTokens, resendLog>>

\* sendVerificationEmail catches what its sending throws and reports it.
sendVerificationEmail(serviceOk) == [ success |-> serviceOk ]

\* Token generation, the INSERT, the verification email and the answer.  A
\* failed email is logged only; the answer tells here whether it was sent.
SignupSaveEmail(slot, dbOk, serviceOk) ==
    LET sanitizedData == inflight[slot].data
        verificationToken == nextToken
        companyData == [ email |-> sanitizedData.email,
                         company_name |-> sanitizedData.companyName,
                         account_status |-> "pending_verification",
                         email_verified |-> FALSE,
                         verification_token |-> verificationToken,
                         created_at |-> now ]
        saveResult == saveCompanyToDatabase(Companies, companyData, dbOk)
        emailResult == sendVerificationEmail(serviceOk)
    IN  /\ inflight[slot].op = "signup"
        /\ nextToken' = nextToken + 1
        /\ Companies' = saveResult.rows
        /\ resp' = IF saveResult.success
                   THEN AccountAnswer("POST /company-signup", 201,
                                      [ companyId |-> saveResult.companyId,
                                        emailSent |-> emailResult.success ])
                   ELSE AccountAnswer("POST /company-signup", 500, "Internal server error")
        /\ inflight' = [inflight EXCEPT ![slot] = Idle]
        /\ UNCHANGED <<now, leadVars, leadsRateLimitStorage, limiterVars,
                       rateLimitStore, verifiedTokens, resendLog>>

\* The verification email as it is in the source: a stub that succeeds.
SignupSave(slot, dbOk) == SignupSaveEmail(slot, dbOk, TRUE)

(***************************************************************************)
(* verify-email.js.  A presented token is missing, malformed (a character  *)
(* outside [a-zA-Z0-9] or fewer than 16 characters) or the n-th generated  *)
(* token.                                                                  *)
(***************************************************************************)
MissingToken == [ kind |-> "missing", n |-> NullToken ]
MalformedToken == [ kind |-> "malformed", n |-> NullToken ]
Token(n) == [ kind |-> "token", n |-> n ]

maxAge == H24           \* 24 * 60 * 60 * 1000 ms

\* The rows whose verification_token equals the token; the function takes
\* companies[0], and the query asks for no order.
findCompanyByToken(rows, token) ==
    { rows[i] : i \in { j \in 1..Len(rows) : tokenOf(rows[j]) = token } }

updateCompanyVerification_KeepsToken(rows, companyId, dbOk) ==
    IF dbOk
    THEN [ success |-> TRUE,
           rows |-> Patch(rows, "id", companyId,
                          [ email_verified |-> TRUE,
                            account_status |-> "email_verified" ]) ]
    ELSE [ success |-> FALSE, rows |-> rows ]

updateCompanyVerification(rows, companyId, dbOk) ==
    IF dbOk
    THEN [ success |-> TRUE,
           rows |-> Patch(rows, "id", companyId,
                          [ email_verified |-> TRUE,
                            account_status |-> "email_verified",
                            verification_token |-> NullToken ]) ]
    ELSE [ success |-> FALSE, rows |-> rows ]

VerifyAnswer(token, statusCode, alreadyVerified, companyId) ==
    [ op |-> "POST /verify-email", token |-> token, statusCode |-> statusCode,
      alreadyVerified |-> alreadyVerified, companyId |-> companyId ]

\* Token checks and the lookup: answers 400, 404, 500 or 200 alreadyVerified,
\* or goes on to the update.
VerifyLookup(slot, token, dbOk) ==
    LET found == findCompanyByToken(Companies, token.n)
        Answer(statusCode, alreadyVerified) ==
            /\ resp' = VerifyAnswer(token, statusCode, alreadyVerified, 0)
            /\ UNCHANGED inflight
    IN  /\ inflight[slot] = Idle
        /\ IF token.kind # "token" THEN Answer(400, FALSE)
           ELSE IF ~dbOk THEN Answer(500, FALSE)
           ELSE IF found = {} THEN Answer(404, FALSE)
           ELSE \E company \in found :
                    IF emailVerified(company) THEN Answer(200, TRUE)
                    ELSE IF now - company.created_at > maxAge THEN Answer(400, FALSE)
                    ELSE /\ resp' = NoResp
                         /\ inflight' = [inflight EXCEPT ![slot] =
                                [ op |-> "verify", token |-> token,
                                  companyId |-> company.id ]]
        /\ UNCHANGED <<now, leadVars, leadsRateLimitStorage, limiterVars, Companies,
                       nextToken, rateLimitStore, verifiedTokens, resendLog>>

\* try { await sendWelcomeEmail(...) } catch (emailError) { log }: the handler
\* goes on to its answer whether or not the email threw.
goesOnAfterWelcomeEmail_Rethrows(emailThrows) == ~emailThrows

goesOnAfterWelcomeEmail(emailThrows) == TRUE

\* The PATCH, the welcome email and the answer.  A welcome email that threw
\* is logged only; the answer tells here whether it did.
VerifyUpdateEmail(slot, dbOk, emailThrows) ==
    LET request == inflight[slot]
        updateResult == updateCompanyVerification(Companies, request.companyId, dbOk)
        statusCode == IF updateResult.success /\ goesOnAfterWelcomeEmail(emailThrows)
                      THEN 200 ELSE 500
    IN  /\ request.op = "verify"
        /\ Companies' = updateResult.rows
        /\ verifiedTokens' = IF updateResult.success
                             THEN verifiedTokens \cup {request.token.n}
                             ELSE verifiedTokens
        /\ resp' = [ welcomeEmailFailed |-> updateResult.success /\ emailThrows ]
                      @@ VerifyAnswer(request.token, statusCode, FALSE, request.companyId)
        /\ inflight' = [inflight EXCEPT ![slot] = Idle]
        /\ UNCHANGED <<now, leadVars, leadsRateLimitStorage, limiterVars,
                       nextToken, rateLimitStore, resendLog>>

\* The welcome email as it is in the source: a stub that does not throw.
VerifyUpdate(slot, dbOk) == VerifyUpdateEmail(slot, dbOk, FALSE)

(***************************************************************************)
(* resend-verification.js                                                  *)
(***************************************************************************)
resendWindowMs == 15 \div MinutesPerTick    \* 15 * 60 * 1000 ms
maxAttempts == 3
SecondsPerTick == MinutesPerTick * 60

findCompanyByEmail(rows, email) ==
    { rows[i] : i \in { j \in 1..Len(rows) : rows[j].email = email } }

attemptsOf(store, email) == IF email \in DOMAIN store THEN store[email] ELSE << >>

MinOf(S) == CHOOSE x \in S : \A y \in S : x <= y

resendCheckRateLimit_CountsFromFour(store, email, t) ==
    LET recentAttempts == SelectSeq(attemptsOf(store, email),
                                    LAMBDA timestamp : t - timestamp < resendWindowMs)
    IN  IF Len(recentAttempts) > maxAttempts
        THEN [ allowed |-> FALSE,
               retryAfter |-> (resendWindowMs - (t - MinOf(SeqRange(recentAttempts))))
                              * SecondsPerTick ]
        ELSE [ allowed |-> TRUE, retryAfter |-> 0 ]

\* checkRateLimit of resend-verification.js
resendCheckRateLimit(store, email, t) ==
    LET recentAttempts == SelectSeq(attemptsOf(store, email),
                                    LAMBDA timestamp : t - timestamp < resendWindowMs)
    IN  IF Len(recentAttempts) >= maxAttempts
        THEN [ allowed |-> FALSE,
               retryAfter |-> (resendWindowMs - (t - MinOf(SeqRange(recentAttempts))))
                              * SecondsPerTick ]
        ELSE [ allowed |-> TRUE, retryAfter |-> 0 ]

cleanupRateLimit(store, t) ==
    LET Recent(key) == SelectSeq(store[key], LAMBDA timestamp : t - timestamp < resendWindowMs)
        kept == { key \in DOMAIN store : Len(Recent(key)) # 0 }
    IN  [ key \in kept |-> Recent(key) ]

\* cleanup is the outcome of Math.random() < 0.1
recordRateLimitAttempt(store, email, t, cleanup) ==
    LET recorded == (email :> Append(attemptsOf(store, email), t)) @@ store
    IN  IF cleanup THEN cleanupRateLimit(recorded, t) ELSE recorded

updateVerificationToken_RenewsCreatedAt(rows, companyId, newToken, dbOk) ==
    IF dbOk
    THEN [ success |-> TRUE,
           rows |-> Patch(rows, "id", companyId,
                          [ verification_token |-> newToken, created_at |-> now ]) ]
    ELSE [ success |-> FALSE, rows |-> rows ]

updateVerificationToken_ResetsSubscription(rows, companyId, newToken, dbOk) ==
    IF dbOk
    THEN [ success |-> TRUE,
           rows |-> Patch(rows, "id", companyId,
                          [ verification_token |-> newToken,
                            subscription_status |-> "none" ]) ]
    ELSE [ success |-> FALSE, rows |-> rows ]

updateVerificationToken(rows, companyId, newToken, dbOk) ==
    IF dbOk
    THEN [ success |-> TRUE,
           rows |-> Patch(rows, "id", companyId,
                          [ verification_token |-> newToken ]) ]
    ELSE [ success |-> FALSE, rows |-> rows ]

ResendAnswer(email, statusCode, message, retryAfter) ==
    [ op |-> "POST /resend-verification", email |-> email, statusCode |-> statusCode,
      message |-> message, retryAfter |-> retryAfter ]

\* The resend requests answered so far for a well-formed address, the latest
\* maxAttempts of them: when each was answered and whether it sent an email.
Logged(log, email, answer) ==
    LET all == Append(log, [ email |-> email, at |-> now, sent |-> answer.message = "sent" ])
    IN  IF ~emailRegexTest(email) THEN log
        ELSE IF Len(all) > maxAttempts THEN Tail(all) ELSE all

\* Email checks, the lookup and the rate-limit check: answers 400, 500, 200
\* (no account, or already verified) or 429, or goes on to the update.
ResendLookup(slot, email, dbOk) ==
    LET cleanEmail == cleanEmailOf(email)
        found == findCompanyByEmail(Companies, cleanEmail)
        rateLimitResult == resendCheckRateLimit(rateLimitStore, cleanEmail, now)
        Answer(answer) ==
            /\ resp' = answer
            /\ resendLog' = Logged(resendLog, cleanEmail, answer)
            /\ UNCHANGED inflight
    IN  /\ inflight[slot] = Idle
        /\ IF ~emailRegexTest(cleanEmail)
           THEN Answer(ResendAnswer(cleanEmail, 400, "invalid email", 0))
           ELSE IF ~dbOk THEN Answer(ResendAnswer(cleanEmail, 500, "error", 0))
           ELSE IF found = {} THEN Answer(ResendAnswer(cleanEmail, 200, "if an account exists", 0))
           ELSE \E company \in found :
                    IF emailVerified(company)
                    THEN Answer(ResendAnswer(cleanEmail, 200, "already verified", 0))
                    ELSE IF ~rateLimitResult.allowed
                    THEN Answer(ResendAnswer(cleanEmail, 429, "too many",
                                             rateLimitResult.retryAfter))
                    ELSE /\ resp' = NoResp
                         /\ inflight' = [inflight EXCEPT ![slot] =
                                [ op |-> "resend", email |-> cleanEmail,
                                  companyId |-> company.id ]]
                         /\ UNCHANGED resendLog
        /\ UNCHANGED <<now, leadVars, leadsRateLimitStorage, limiterVars, Companies,
                       nextToken, rateLimitStore, verifiedTokens>>

\* Token generation, the PATCH, the email (a stub that succeeds), the recorded
\* attempt and the answer.
ResendUpdate(slot, dbOk, cleanup) ==
    LET request == inflight[slot]
        newVerificationToken == nextToken
        updateResult == updateVerificationToken(Companies, request.companyId,
                                                newVerificationToken, dbOk)
        answer == IF updateResult.success THEN ResendAnswer(request.email, 200, "sent", 0)
                  ELSE ResendAnswer(request.email, 500, "error", 0)
    IN  /\ request.op = "resend"
        /\ nextToken' = nextToken + 1
        /\ Companies' = updateResult.rows
        /\ rateLimitStore' = IF updateResult.success
                             THEN recordRateLimitAttempt(rateLimitStore, request.email,
                                                         now, cleanup)
                             ELSE rateLimitStore
        /\ resp' = answer
        /\ resendLog' = Logged(resendLog, request.email, answer)
        /\ inflight' = [inflight EXCEPT ![slot] = Idle]
        /\ UNCHANGED <<now, leadVars, leadsRateLimitStorage, limiterVars, verifiedTokens>>

(***************************************************************************)
(* stripe-webhook.js: checkout.session.completed with metadata type        *)
(* 'subscription' (updateCompanySubscription).  The answer of the          *)
(* existence query is a list of rows, an error object (whose length is     *)
(* undefined, so the function goes on to create), or a failure that throws.*)
(***************************************************************************)
CheckOutcomes == { "rows", "error object", "throws" }

WebhookSubscriptionCheck(slot, email, companyName, customer, outcome) ==
    LET existingCompanies == findCompanyByEmail(Companies, email)
    IN  /\ inflight[slot] = Idle
        /\ IF outcome = "throws"
           THEN /\ resp' = WebhookAnswer(200, [ received |-> TRUE ])
                /\ UNCHANGED inflight
           ELSE /\ resp' = NoResp
                /\ inflight' = [inflight EXCEPT ![slot] =
                       [ op |-> "subscription", email |-> email, companyName |-> companyName,
                         customer |-> customer,
                         exists |-> outcome = "rows" /\ existingCompanies # {} ]]
        /\ UNCHANGED <<now, leadVars, leadsRateLimitStorage, limiterVars, Companies,
                       nextToken, rateLimitStore, verifiedTokens, resendLog>>

\* The PATCH by email or the POST of a new row; its outcome is not inspected.
WebhookSubscriptionWrite(slot, dbOk) ==
    LET request == inflight[slot]
    IN  /\ request.op = "subscription"
        /\ Companies' =
              IF ~dbOk THEN Companies
              ELSE IF request.exists
              THEN Patch(Companies, "email", request.email,
                         [ subscription_status |-> "active",
                           stripe_customer_id |-> request.customer ])
              ELSE Insert(Companies, [ company_name |-> request.companyName,
                                       email |-> request.email,
                                       subscription_status |-> "active",
                                       stripe_customer_id |-> request.customer,
                                       created_at |-> now ])
        /\ resp' = WebhookAnswer(200, [ received |-> TRUE ])
        /\ inflight' = [inflight EXCEPT ![slot] = Idle]
        /\ UNCHANGED <<now, leadVars, leadsRateLimitStorage, limiterVars,
                       nextToken, rateLimitStore, verifiedTokens, resendLog>>

(***************************************************************************)
(* validate-lead-data.js                                                   *)
(***************************************************************************)
\* isValidEmail of the trimmed, lower-cased address.
isValidEmail(email) == emailRegexTest(email)

sanitizePhone(phone) ==
    IF ~typeofString(phone) THEN <<>>
    ELSE LET cleaned == cleanPhoneOf(phone[2])
         IN  IF Len(cleaned) >= 10 /\ Len(cleaned) <= 20 THEN cleaned ELSE <<>>

submittedPropertyTypes == { <<"h", "o", "u", "s", "e">>,
                        <<"c", "o", "n", "d", "o">>,
                        <<"a", "p", "a", "r", "t", "m", "e", "n", "t">>,
                        <<"s", "t", "o", "r", "a", "g", "e">>,
                        <<"o", "t", "h", "e", "r">> }

submittedTimelines == { <<"a", "s", "a", "p">>,
                    <<"m", "o", "n", "t", "h">>,
                    <<"1", "-", "3", "m", "o", "n", "t", "h", "s">>,
                    <<"f", "l", "e", "x", "i", "b", "l", "e">>,
                    <<"p", "l", "a", "n", "n", "i", "n", "g">> }

\* A text field: absent or not a string is one error, otherwise too short
\* after sanitizing is one error.
leadTextErrors(v, maxLength, minLength, required, tooShort) ==
    IF ~truthy(v) \/ ~typeofString(v) THEN <<required>>
    ELSE IF Len(sanitizeText(v, maxLength)) < minLength THEN <<tooShort>>
    ELSE <<>>

validateLeadData(data) ==
    [ errors |->
         leadTextErrors(data.firstName, 50, 1, "First name is required",
                        "First name cannot be empty")
         \o leadTextErrors(data.lastName, 50, 1, "Last name is required",
                           "Last name cannot be empty")
         \o (IF ~truthyEmail(data.email) \/ ~typeofString(data.email)
             THEN <<"Email is required">>
             ELSE IF ~isValidEmail(cleanEmailOf(data.email[2]))
             THEN <<"Invalid email format">>
             ELSE <<>>)
         \o (IF ~truthy(data.phone) \/ ~typeofString(data.phone)
             THEN <<"Phone number is required">>
             ELSE IF sanitizePhone(data.phone) = <<>>
             THEN <<"Invalid phone number format">>
             ELSE <<>>)
         \o leadTextErrors(data.address, 200, 10, "Address is required",
                           "Address must be at least 10 characters")
         \o (IF ~truthy(data.propertyType)
                \/ ~(typeofString(data.propertyType)
                     /\ data.propertyType[2] \in submittedPropertyTypes)
             THEN <<"Invalid property type">> ELSE <<>>)
         \o (IF ~truthy(data.timeline)
                \/ ~(typeofString(data.timeline) /\ data.timeline[2] \in submittedTimelines)
             THEN <<"Invalid timeline">> ELSE <<>>)
         \o leadTextErrors(data.details, 2000, 10, "Details are required",
                           "Details must be at least 10 characters"),
      data |->
         [ firstName |-> sanitizeText(data.firstName, 50),
           lastName |-> sanitizeText(data.lastName, 50),
           email |-> IF typeofString(data.email) THEN cleanEmailOf(data.email[2]) ELSE "",
           phone |-> sanitizePhone(data.phone),
           address |-> sanitizeText(data.address, 200),
           propertyType |-> data.propertyType,
           timeline |-> data.timeline,
           details |-> sanitizeText(data.details, 2000) ] ]

LeadAnswer(statusCode, body) ==
    [ op |-> "POST /validate-lead-data", statusCode |-> statusCode, body |-> body ]

\* The handler: 400 with all the errors, or the INSERT into Leads and 200; a
\* failed INSERT throws into the catch, which answers 500.
SubmitLead(rawData, dbOk) ==
    LET validatedData == validateLeadData(rawData)
        leadData == [ first_name |-> validatedData.data.firstName,
                      last_name |-> validatedData.data.lastName,
                      email |-> validatedData.data.email,
                      phone |-> validatedData.data.phone,
                      address |-> validatedData.data.address,
                      property_type |-> validatedData.data.propertyType,
                      timeline |-> validatedData.data.timeline,
                      details |-> validatedData.data.details,
                      exclusive_purchased_by |-> NULL,
                      created_at |-> now ]
    IN  /\ IF validatedData.errors # <<>>
           THEN /\ resp' = LeadAnswer(400, validatedData.errors)
                /\ UNCHANGED Leads
           ELSE IF ~dbOk
           THEN /\ resp' = LeadAnswer(500, <<"Failed to process submission">>)
                /\ UNCHANGED Leads
           ELSE /\ resp' = LeadAnswer(200, <<"Lead submitted successfully">>)
                /\ Leads' = Append(Leads, leadData)
        /\ UNCHANGED <<now, seenOutsideWindow, leadsRateLimitStorage, limiterVars, accountVars>>

(***************************************************************************)
(* Inputs and bounds of the accounts specifications.  A request takes the  *)
(* first free slot; up to MaxInFlight requests are between their lookup    *)
(* and their write.                                                        *)
(***************************************************************************)
Pending(op) == { s \in Slots : inflight[s].op = op }
FirstFree(slot) == inflight[slot] = Idle /\ \A s \in 1..(slot - 1) : inflight[s] # Idle
AllIdle == \A s \in Slots : inflight[s] = Idle

\* Room for one more generated token, and for the rows that the requests in
\* flight and one more may add.
TokensLeft(max) == nextToken <= max
RowsLeft(max) ==
    Len(Companies) + Cardinality(Pending("signup"))
        + Cardinality({ s \in Pending("subscription") : ~inflight[s].exists }) < max

AcmeEstates == <<"A", "c", "m", "e", " ", "E", "s", "t", "a", "t", "e", "s">>

\* A signup body that passes validation.
ValidSignupData ==
    [ firstName |-> Str(<<"J", "a", "n", "e">>),
      lastName |-> Str(<<"D", "o", "e">>),
      companyName |-> Str(AcmeEstates),
      email |-> Str(OwnerEmail),
      phone |-> Str(<<"7", "0", "4", "5", "5", "5", "1", "2", "3", "4">>),
      password |-> Str(<<"S", "e", "c", "r", "e", "t", "1", "2", "3">>),
      confirmPassword |-> Str(<<"S", "e", "c", "r", "e", "t", "1", "2", "3">>),
      businessAddress |-> Str(<<"1", "2", " ", "M", "a", "i", "n", " ", "S", "t">>),
      businessType |-> Str(<<"o", "t", "h", "e", "r">>),
      yearsInBusiness |-> Str(<<"3", "-", "5">>),
      serviceAreas |-> Str(<<"U", "n", "i", "o", "n">>),
      termsAgreement |-> TRUE, backgroundCheck |-> TRUE, professionalConduct |-> TRUE ]

\* The body with the given address; without fieldsOk it has no first name.
SignupRequest(email, fieldsOk) ==
    [ValidSignupData EXCEPT !.email = Str(email),
                            !.firstName = IF fieldsOk THEN @ ELSE Absent]
SignupRequests ==
    { SignupRequest(e, ok) : e \in PresentedEmails, ok \in BOOLEAN }
    \cup { InvalidJson, [ValidSignupData EXCEPT !.email = Num(123)] }
PresentedVerificationTokens(max) ==
    { MissingToken, MalformedToken } \cup { Token(n) : n \in 1..max }

(***************************************************************************)
(* Specification of account creation: concurrent signups and subscription  *)
(* webhooks for one email address                                          *)
(***************************************************************************)
SignupStart ==
    \E slot \in Slots, requestData \in SignupRequests, dbOk \in BOOLEAN :
        /\ FirstFree(slot) /\ RowsLeft(MaxCompanies)
        /\ SignupCheck(slot, requestData, dbOk)

SignupFinish ==
    \E slot \in Slots, dbOk \in BOOLEAN : TokensLeft(MaxTokens) /\ SignupSave(slot, dbOk)

SubscriptionStart ==
    \E slot \in Slots, outcome \in CheckOutcomes :
        /\ FirstFree(slot) /\ RowsLeft(MaxCompanies)
        /\ WebhookSubscriptionCheck(slot, OwnerEmail, AcmeEstates, "cus_1", outcome)

SubscriptionFinish == \E slot \in Slots, dbOk \in BOOLEAN : WebhookSubscriptionWrite(slot, dbOk)

NextSignup == SignupStart \/ SignupFinish \/ SubscriptionStart \/ SubscriptionFinish

SpecSignup == Init /\ [][NextSignup]_vars

(***************************************************************************)
(* Specification of verification: signup, verify-email and                 *)
(* resend-verification requests for one account, interleaved               *)
(***************************************************************************)
VerifSignupStart ==
    \E slot \in Slots, dbOk \in BOOLEAN :
        /\ FirstFree(slot) /\ RowsLeft(MaxAccounts)
        /\ SignupCheck(slot, SignupRequest(OwnerEmail, TRUE), dbOk)

VerifSignupFinish ==
    \E slot \in Slots, dbOk \in BOOLEAN : TokensLeft(MaxTokens) /\ SignupSave(slot, dbOk)

VerifVerifyStart ==
    \E slot \in Slots, token \in PresentedVerificationTokens(MaxTokens), dbOk \in BOOLEAN :
        FirstFree(slot) /\ VerifyLookup(slot, token, dbOk)

VerifVerifyFinish == \E slot \in Slots, dbOk \in BOOLEAN : VerifyUpdate(slot, dbOk)

VerifResendStart ==
    \E slot \in Slots, email \in PresentedEmails, dbOk \in BOOLEAN :
        FirstFree(slot) /\ ResendLookup(slot, email, dbOk)

VerifResendFinish ==
    \E slot \in Slots, dbOk \in BOOLEAN, cleanup \in BOOLEAN :
        TokensLeft(MaxTokens) /\ ResendUpdate(slot, dbOk, cleanup)

NextVerification ==
    \/ VerifSignupStart \/ VerifSignupFinish
    \/ VerifVerifyStart \/ VerifVerifyFinish
    \/ VerifResendStart \/ VerifResendFinish

SpecVerification == Init /\ [][NextVerification]_vars

(***************************************************************************)
(* Specification of sequential resends: signup, verify-email and           *)
(* resend-verification requests handled one after the other, and the clock *)
(***************************************************************************)
\* The clock moves between requests; an existence lookup that fails is left
\* to the signup specification.
ResendTick == AllIdle /\ Tick(MaxTimeResend)

SeqSignupStart ==
    /\ AllIdle /\ RowsLeft(MaxAccounts)
    /\ SignupCheck(1, SignupRequest(OwnerEmail, TRUE), TRUE)

SeqSignupFinish == \E dbOk \in BOOLEAN : TokensLeft(MaxResendTokens) /\ SignupSave(1, dbOk)

\* Verification requests present a token that has been sent out.
SeqVerifyStart ==
    \E n \in 1..(nextToken - 1) :
        AllIdle /\ VerifyLookup(1, Token(n), TRUE)

SeqVerifyFinish == VerifyUpdate(1, TRUE)

SeqResendStart ==
    \E email \in PresentedEmails, dbOk \in BOOLEAN :
        AllIdle /\ ResendLookup(1, email, dbOk)

SeqResendFinish ==
    \E dbOk \in BOOLEAN, cleanup \in BOOLEAN :
        TokensLeft(MaxResendTokens) /\ ResendUpdate(1, dbOk, cleanup)

NextResend ==
    \/ ResendTick
    \/ SeqSignupStart \/ SeqSignupFinish
    \/ SeqVerifyStart \/ SeqVerifyFinish
    \/ SeqResendStart \/ SeqResendFinish

SpecResend == Init /\ [][NextResend]_vars

(***************************************************************************)
(* Properties of the accounts                                              *)
(***************************************************************************)
VerifyAnswered == resp.op = "POST /verify-email"
VerifySucceeded == VerifyAnswered /\ resp.statusCode = 200 /\ ~resp.alreadyVerified

\* C4: verification is idempotent.  After a verify-email request with a valid
\* token has succeeded the account's stored verification_token is empty, and
\* every later verify-email request presenting that token is answered 200 with
\* alreadyVerified: true.
C4_VerificationIdempotent ==
    [][ /\ VerifySucceeded' =>
            \A i \in 1..Len(Companies') :
                Companies'[i].id = resp'.companyId => tokenOf(Companies'[i]) = NullToken
        /\ (VerifyAnswered' /\ resp'.token.n \in verifiedTokens) =>
                (resp'.statusCode = 200 /\ resp'.alreadyVerified)
      ]_vars

\* C5: in every state of the Companies table, an account has a
\* verification_token present if and only if its email_verified is false.
C5_TokenPresentIffUnverified ==
    \A i \in 1..Len(Companies) :
        tokenOf(Companies[i]) # NullToken
            <=> (Has(Companies[i], "email_verified") /\ Companies[i].email_verified = FALSE)

\* C6: no two accounts in the Companies table have the same email.
C6_EmailUnique ==
    \A i, j \in 1..Len(Companies) :
        i # j => Companies[i].email # Companies[j].email

ResendAnswered == resp.op = "POST /resend-verification"

\* The request answered in this step is the fourth for its email: the three
\* requests answered before it were for the same email, the first of them
\* less than 15 minutes ago.
FourthWithinWindow ==
    /\ ResendAnswered'
    /\ Len(resendLog) = maxAttempts
    /\ \A i \in 1..maxAttempts : resendLog[i].email = resp'.email
    /\ now' - resendLog[1].at < resendWindowMs

Rejected(answer) == answer.statusCode = 429 /\ answer.retryAfter > 0

SECURE_COMPANIES ==
    << [ id |-> 1, email |-> "demo@estatesales.com", credential |-> "demo123",
         companyName |-> "Demo Estate Sales", isActive |-> TRUE,
         subscriptionStatus |-> "active" ],
       [ id |-> 2, email |-> "premium@estatesales.com", credential |-> "premium123",
         companyName |-> "Premium Estate Sales", isActive |-> TRUE,
         subscriptionStatus |-> "active" ],
       [ id |-> 3, email |-> "charlotte@estatesales.com", credential |-> "charlotte123",
         companyName |-> "Charlotte Estate Solutions", isActive |-> TRUE,
         subscriptionStatus |-> "active" ] >>

\* A request field: absent, a JSON number, or a string.
NumberValue == "<number 123>"
IsString(v) == v # NumberValue /\ v # ""
LoginEmails == { "", "not-an-email", "demo@estatesales.com", "Demo@EstateSales.com",
                 "nobody@estatesales.com" }
LoginPasswords == { "", NumberValue, "demo123", "premium123" }
LoginBodies == { "not json", "null", "object" }

toLowerCase(email) == IF email = "Demo@EstateSales.com" THEN "demo@estatesales.com" ELSE email
loginEmailRegexTest(email) == email \notin { "", "not-an-email" }

\* SECURE_COMPANIES.find(...) / DEMO_CREDENTIALS[...]: the matching indices.
findUser(email) ==
    { i \in 1..Len(SECURE_COMPANIES) : SECURE_COMPANIES[i].email = toLowerCase(email) }

\* bcrypt.compare rejects when the password is not a string.
bcryptCompare(password, credential) ==
    IF ~IsString(password) THEN [ threw |-> TRUE, result |-> FALSE ]
    ELSE [ threw |-> FALSE, result |-> password = credential ]

NoLoginToken == [ sig |-> "none" ]

\* jwt.sign(tokenPayload, secret); emailClaim is user.email or the email as typed.
signedToken(user, emailClaim, t) ==
    [ sig |-> "good", userId |-> user.id, email |-> emailClaim,
      companyName |-> user.companyName, subscriptionStatus |-> user.subscriptionStatus,
      iat |-> t, exp |-> t + H24 ]

LoginAnswer(statusCode, error, token) ==
    [ statusCode |-> statusCode, error |-> error, token |-> token ]

\* What follows the parsing of the body in the three handlers.
loginChecks(variant, email, password, t) ==
    IF email = "" \/ password = ""
    THEN LoginAnswer(400, "Email and password are required", NoLoginToken)
    ELSE IF ~loginEmailRegexTest(email)
    THEN LoginAnswer(400, "Invalid email format", NoLoginToken)
    ELSE IF findUser(email) = {}
    THEN LoginAnswer(401, "Invalid credentials", NoLoginToken)
    ELSE LET user == SECURE_COMPANIES[CHOOSE i \in findUser(email) : TRUE]
             compared == bcryptCompare(password, user.credential)
             isValidPassword ==
                 IF variant = "demo" THEN user.credential = password
                 ELSE ~compared.threw /\ compared.result
                 \* the fallback of the second handler compares the typed
                 \* password, which is not a string there, with a string
         IN  IF ~user.isActive
             THEN LoginAnswer(403, "Account is deactivated", NoLoginToken)
             ELSE IF variant = "part_001" /\ compared.threw
             THEN LoginAnswer(500, "Internal server error", NoLoginToken)
             ELSE IF ~isValidPassword
             THEN LoginAnswer(401, "Invalid credentials", NoLoginToken)
             ELSE LoginAnswer(200, "",
                      signedToken(user, IF variant = "demo" THEN email ELSE user.email, t))

authLogin(variant, event, t) ==
    IF event.body = "not json"
    THEN IF variant = "part_001"
         THEN LoginAnswer(500, "Internal server error", NoLoginToken)
         ELSE LoginAnswer(400, "Invalid JSON in request body", NoLoginToken)
    ELSE IF event.body = "null"
    THEN LoginAnswer(500, "Internal server error", NoLoginToken)
    ELSE loginChecks(variant, event.email, event.password, t)

LoginVariants == { "part_001", "secure", "demo" }

AuthLogin(variant, event) ==
    /\ resp' = [ op |-> "POST /login", variant |-> variant, event |-> event,
                 answer |-> authLogin(variant, event, now) ]
    /\ UNCHANGED <<now, leadVars, leadsRateLimitStorage, limiterVars, accountVars>>

LoginEvents ==
    { [ body |-> b, email |-> e, password |-> pw ] :
        b \in LoginBodies, e \in LoginEmails, pw \in LoginPasswords }

LoginTick == Tick(MaxTimeLogin)
LoginRequest == \E variant \in LoginVariants, event \in LoginEvents : AuthLogin(variant, event)
NextLogin == LoginTick \/ LoginRequest
SpecLogin == Init /\ [][NextLogin]_vars

\* C11: POST /login answers 200 with a token only for a known, active account
\* and its matching password; the token's claims are the account's id, email,
\* companyName and subscriptionStatus and its exp is iat + 24 hours.  Unknown
\* email or wrong password give 401, a deactivated account 403, missing or
\* malformed input 400, and none of these issues a token.
C11_LoginIssuesTokenOnlyForValidCredentials ==
    resp.op = "POST /login" =>
        LET event == resp.event
            answer == resp.answer
            malformed == \/ event.body # "object"
                         \/ event.email = "" \/ event.password = ""
                         \/ ~loginEmailRegexTest(event.email)
                         \/ ~IsString(event.password)
            known == findUser(event.email)
        IN  /\ malformed => answer.statusCode = 400
            /\ (~malformed /\ known = {}) => answer.statusCode = 401
            /\ ~malformed => \A i \in known :
                   LET account == SECURE_COMPANIES[i]
                   IN  IF ~account.isActive THEN answer.statusCode = 403
                       ELSE IF event.password # account.credential
                       THEN answer.statusCode = 401
                       ELSE /\ answer.statusCode = 200
                            /\ answer.token =
                                 [ sig |-> "good", userId |-> account.id,
                                   email |-> account.email,
                                   companyName |-> account.companyName,
                                   subscriptionStatus |-> account.subscriptionStatus,
                                   iat |-> now, exp |-> now + H24 ]
            /\ answer.statusCode # 200 => answer.token = NoLoginToken

(***************************************************************************)
(* Specification of the account lifecycle: signup, verify-email and        *)
(* resend-verification requests for one account, interleaved, while the    *)
(* clock moves by whole days                                               *)
(***************************************************************************)
DayPasses ==
    /\ now \div H24 < MaxDays
    /\ now' = now + H24
    /\ resp' = NoResp
    /\ UNCHANGED <<leadVars, leadsRateLimitStorage, limiterVars, accountVars>>

\* Signups run alone here; concurrent signups belong to the signup specification.
LifeSignupStart ==
    /\ AllIdle /\ RowsLeft(MaxAccounts)
    /\ SignupCheck(1, SignupRequest(OwnerEmail, TRUE), TRUE)

LifeSignupFinish ==
    \E slot \in Slots : TokensLeft(MaxTokens) /\ SignupSave(slot, TRUE)

LifeVerifyStart ==
    \E slot \in Slots, n \in 1..MaxTokens :
        FirstFree(slot) /\ VerifyLookup(slot, Token(n), TRUE)

LifeVerifyFinish == \E slot \in Slots, dbOk \in BOOLEAN : VerifyUpdate(slot, dbOk)

LifeResendStart ==
    \E slot \in Slots : FirstFree(slot) /\ ResendLookup(slot, OwnerEmail, TRUE)

LifeResendFinish ==
    \E slot \in Slots, dbOk \in BOOLEAN :
        TokensLeft(MaxTokens) /\ ResendUpdate(slot, dbOk, FALSE)

NextLifecycle ==
    \/ DayPasses
    \/ LifeSignupStart \/ LifeSignupFinish
    \/ LifeVerifyStart \/ LifeVerifyFinish
    \/ LifeResendStart \/ LifeResendFinish

SpecLifecycle == Init /\ [][NextLifecycle]_vars

RowOf(rows, id) == rows[CHOOSE i \in 1..Len(rows) : rows[i].id = id]
IsVerifiedRow(row) ==
    /\ emailVerified(row)
    /\ Has(row, "account_status") /\ row.account_status = "email_verified"
    /\ tokenOf(row) = NullToken

\* A column of the row takes its verified value in this step.
TurnsVerified(old, new) ==
    \/ ~emailVerified(old) /\ emailVerified(new)
    \/ /\ Has(new, "account_status") /\ new.account_status = "email_verified"
       /\ ~(Has(old, "account_status") /\ old.account_status = "email_verified")
    \/ tokenOf(old) # NullToken /\ tokenOf(new) = NullToken

\* C12: a column of an account takes its verified value only in the step that
\* completes a verify-email request for that account, and that step sets
\* email_verified = true, account_status = 'email_verified' and clears the
\* token; a verify-email request goes on to that step only if, when it
\* arrives, its token is the account's stored token and the account was
\* created at most 24 hours before.
C12_VerifiedOnlyThroughVerifyEmail ==
    [][ /\ \A i \in 1..Len(Companies) :
              TurnsVerified(Companies[i], Companies'[i]) =>
                  /\ IsVerifiedRow(Companies'[i])
                  /\ \E slot \in Slots :
                         /\ inflight[slot].op = "verify"
                         /\ inflight[slot].companyId = Companies[i].id
                         /\ inflight'[slot] = Idle
        /\ \A i \in (Len(Companies) + 1)..Len(Companies') :
              ~emailVerified(Companies'[i])
        /\ \A slot \in Slots :
              (inflight[slot] = Idle /\ inflight'[slot].op = "verify") =>
                  LET account == RowOf(Companies, inflight'[slot].companyId)
                  IN  /\ tokenOf(account) = inflight'[slot].token.n
                      /\ tokenOf(account) # NullToken
                      /\ now - account.created_at <= H24
      ]_vars

\* An account was verified exactly 24 hours after it was created.
C12_Witness ==
    /\ VerifySucceeded
    /\ \E i \in 1..Len(Companies) :
           /\ Companies[i].id = resp.companyId
           /\ IsVerifiedRow(Companies[i])
           /\ now - Companies[i].created_at = H24

\* C13: once a resend-verification request has stored its fresh token, the
\* previous token is invalid for good: a verify-email request presenting a
\* token that is no longer the account's stored token, even one that was
\* looked up before the resend wrote, does not verify the account nor change
\* any row.
C13_OldTokenNeverVerifies ==
    [][ \A slot \in Slots :
            ( /\ inflight[slot].op = "verify"
              /\ inflight'[slot] = Idle
              /\ tokenOf(RowOf(Companies, inflight[slot].companyId))
                     # inflight[slot].token.n )
            => Companies' = Companies
      ]_vars

\* C14: the answer of resend-verification does not tell whether an account
\* exists.  The answer for a well-formed email without an account is always
\* the same (200 with the "if an account exists" message), so every answer for
\* a well-formed email, whatever the state of its account, must be that one
\* (answers to a failure of the datastore set aside).
C14_ResendAnswerHidesExistence ==
    (ResendAnswered /\ emailRegexTest(resp.email) /\ resp.statusCode # 500) =>
        resp = ResendAnswer(resp.email, 200, "if an account exists", 0)

(***************************************************************************)
(* stripe-webhook.js: the handler for every event other than a completed   *)
(* checkout whose metadata names an exclusive or a subscription purchase   *)
(* (those are WebhookCheckoutExclusive and WebhookSubscriptionCheck/Write).*)
(* An event carries the outcome of constructEvent, its type, whether       *)
(* data.object and its metadata are there, and the customer and status of  *)
(* a subscription object.                                                  *)
(***************************************************************************)
HandledTypes ==
    { "checkout.session.completed", "customer.subscription.created",
      "customer.subscription.updated", "customer.subscription.deleted",
      "invoice.payment_succeeded", "invoice.payment_failed" }
EventTypes == HandledTypes \cup { "charge.refunded" }
ProviderStatuses == { "active", "past_due", "canceled" }
Customers == { "cus_1", "cus_2" }

StripeEvent(signatureOk, type, hasObject, hasMetadata, customer, status) ==
    [ signatureOk |-> signatureOk, type |-> type, hasObject |-> hasObject,
      hasMetadata |-> hasMetadata, customer |-> customer, status |-> status ]

\* PATCH Companies?stripe_customer_id=eq.customerId; a failure is logged only.
updateCompanySubscriptionStatus(rows, customerId, status, dbOk) ==
    IF dbOk
    THEN Patch(rows, "stripe_customer_id", customerId, [ subscription_status |-> status ])
    ELSE rows

\* The status each subscription event writes.
statusWritten(event) ==
    IF event.type = "customer.subscription.created" THEN "active"
    ELSE IF event.type = "customer.subscription.deleted" THEN "cancelled"
    ELSE event.status

\* The handlers read a property of data.object, and handleCheckoutCompleted
\* destructures its metadata: a missing one throws inside the second try.
handlerThrows(event) ==
    \/ event.type \in HandledTypes /\ ~event.hasObject
    \/ event.type = "checkout.session.completed" /\ ~event.hasMetadata

StripeWebhook(event, dbOk) ==
    /\ IF ~event.signatureOk
       THEN /\ resp' = WebhookAnswer(400, [ error |-> "Webhook Error" ])
            /\ UNCHANGED Companies
       ELSE IF handlerThrows(event)
       THEN /\ resp' = WebhookAnswer(500, [ error |-> "Webhook handler failed" ])
            /\ UNCHANGED Companies
       ELSE /\ resp' = WebhookAnswer(200, [ received |-> TRUE ])
            /\ Companies' =
                  IF event.type \in { "customer.subscription.created",
                                      "customer.subscription.updated",
                                      "customer.subscription.deleted" }
                  THEN updateCompanySubscriptionStatus(Companies, event.customer,
                                                       statusWritten(event), dbOk)
                  ELSE Companies
    /\ UNCHANGED <<now, leadVars, leadsRateLimitStorage, limiterVars,
                   inflight, nextToken, rateLimitStore, verifiedTokens, resendLog>>

(***************************************************************************)
(* create-checkout.js: POST /create-checkout builds the configuration of a *)
(* Stripe checkout session; it reads and writes no table.                  *)
(***************************************************************************)
sessionConfig(request) ==
    [ mode |-> IF request.type = "subscription" THEN "subscription" ELSE "payment",
      customer_email |-> request.companyEmail,
      metadata |->
         IF request.type = "subscription"
         THEN [ companyName |-> request.companyName, type |-> request.type,
                subscriptionType |-> "basic" ]
         ELSE IF request.type = "exclusive"
         THEN [ companyName |-> request.companyName, type |-> request.type,
                leadId |-> request.leadId, purchaseType |-> "exclusive" ]
         ELSE [ companyName |-> request.companyName, type |-> request.type ] ]

CreateCheckout(bodyOk, request, stripeOk) ==
    /\ resp' = IF bodyOk /\ stripeOk
               THEN [ op |-> "POST /create-checkout", statusCode |-> 200,
                      session |-> sessionConfig(request) ]
               ELSE [ op |-> "POST /create-checkout", statusCode |-> 500,
                      error |-> "Failed to create checkout session" ]
    /\ UNCHANGED <<now, leadVars, leadsRateLimitStorage, limiterVars, accountVars>>

CheckoutRequests ==
    { [ type |-> t, companyEmail |-> OwnerEmail, companyName |-> "Acme Estates",
        leadId |-> id ] : t \in { "subscription", "exclusive", "other" }, id \in LeadIds }

(***************************************************************************)
(* Specification of subscriptions: the webhook events, and every other     *)
(* request of the site, handled one after the other                        *)
(***************************************************************************)
\* Events whose signature fails or whose object is missing, of every type; a
\* completed checkout without metadata; subscription events for each
\* customer, the updates with each status the provider reports; the rest.
StripeEvents ==
    { StripeEvent(ok, type, hasObject, FALSE, "cus_1", "active") :
        ok \in BOOLEAN, type \in EventTypes, hasObject \in BOOLEAN }
    \cup { StripeEvent(TRUE, type, TRUE, FALSE, customer, "active") :
             type \in { "customer.subscription.created", "customer.subscription.deleted" },
             customer \in Customers }
    \cup { StripeEvent(TRUE, "customer.subscription.updated", TRUE, FALSE, customer, status) :
             customer \in Customers, status \in ProviderStatuses }

SubWebhook ==
    \E event \in StripeEvents, dbOk \in BOOLEAN : AllIdle /\ StripeWebhook(event, dbOk)

\* The lookup by email answers; the write may fail.
SubCheckoutStart ==
    \E customer \in Customers :
        AllIdle /\ WebhookSubscriptionCheck(1, OwnerEmail, AcmeEstates, customer, "rows")

SubCheckoutFinish == \E dbOk \in BOOLEAN : WebhookSubscriptionWrite(1, dbOk)

SubSignupStart ==
    /\ AllIdle
    /\ SignupCheck(1, SignupRequest(OwnerEmail, TRUE), TRUE)

SubSignupFinish == TokensLeft(MaxTokens) /\ SignupSave(1, TRUE)

SubVerifyStart == \E n \in 1..(nextToken - 1) : AllIdle /\ VerifyLookup(1, Token(n), TRUE)

SubVerifyFinish == VerifyUpdate(1, TRUE)

SubResendStart == AllIdle /\ ResendLookup(1, OwnerEmail, TRUE)

SubResendFinish == TokensLeft(MaxTokens) /\ ResendUpdate(1, TRUE, FALSE)

SubLogin ==
    \E variant \in LoginVariants :
        /\ AllIdle
        /\ AuthLogin(variant, [ body |-> "object", email |-> "demo@estatesales.com",
                                password |-> "demo123" ])

SubCreateCheckout ==
    \E request \in CheckoutRequests, stripeOk \in BOOLEAN :
        AllIdle /\ CreateCheckout(TRUE, request, stripeOk)

SubLeads ==
    \E event \in SubscriberEvents :
        AllIdle /\ BelowCallCap(event) /\ GetLeads(event, TRUE)

NextSubscription ==
    \/ SubWebhook \/ SubCheckoutStart \/ SubCheckoutFinish
    \/ SubSignupStart \/ SubSignupFinish
    \/ SubVerifyStart \/ SubVerifyFinish
    \/ SubResendStart \/ SubResendFinish
    \/ SubLogin \/ SubCreateCheckout \/ SubLeads

SpecSubscription == Init /\ [][NextSubscription]_vars

(***************************************************************************)
(* C15: the webhook answers 400 exactly when the signature of the event    *)
(* fails to verify, and every event whose signature verifies is answered   *)
(* 200 {received: true}, whatever its type and whether or not handling it  *)
(* fails inside (the datastore update fails, the event object lacks the    *)
(* fields the handler reads).                                              *)
(***************************************************************************)
C15_VerifiedEventsAnswered200 ==
    [][\A event \in StripeEvents, dbOk \in BOOLEAN :
          resp'.op = "POST /webhook" /\ StripeWebhook(event, dbOk) =>
             /\ resp'.statusCode = 400 <=> ~event.signatureOk
             /\ event.signatureOk => resp' = WebhookAnswer(200, [ received |-> TRUE ])]_vars

\* The subscription status of a row; a row without the column has none.
subscriptionStatusOf(row) ==
    IF Has(row, "subscription_status") THEN row.subscription_status ELSE "none"

\* The step is one of the payment webhook: an event handled whole, or the
\* write of a completed subscription checkout.
WebhookStep ==
    /\ resp'.op = "POST /webhook"
    /\ \/ \E event \in StripeEvents, dbOk \in BOOLEAN : StripeWebhook(event, dbOk)
       \/ \E slot \in Slots, dbOk \in BOOLEAN : WebhookSubscriptionWrite(slot, dbOk)

\* C16: an account's subscription status is changed only by the payment
\* webhook.  Signup, login, verify-email, resend-verification, the creation
\* of a checkout session and the listing of leads leave the subscription
\* status of every account as it was, and store no account with a status.
C16_StatusChangedOnlyByWebhook ==
    [][ (\E i \in 1..Len(Companies') :
            subscriptionStatusOf(Companies'[i]) #
               (IF i <= Len(Companies) THEN subscriptionStatusOf(Companies[i]) ELSE "none"))
        => WebhookStep ]_vars

\* An account whose subscription the webhook activated has then verified its
\* email after a resend: its status is still the one the webhook wrote.
C16_Witness ==
    /\ VerifySucceeded
    /\ resendLog # <<>>
    /\ \E i \in 1..Len(Companies) :
          /\ subscriptionStatusOf(Companies[i]) = "past_due"
          /\ emailVerified(Companies[i])

\* C17: in every reachable state the subscription status of each account is
\* one of none, active, past_due, cancelled, whatever events the webhook
\* has handled (checkout.session.completed, customer.subscription.created,
\* customer.subscription.updated with any status the provider reports,
\* customer.subscription.deleted).
C17_StatusInEnumeration ==
    \A i \in 1..Len(Companies) : subscriptionStatusOf(Companies[i]) \in SubscriptionStatuses

(***************************************************************************)
(* Specification of validation: a body has been received by POST           *)
(* /company-signup or by POST /validate-lead-data; it is a valid body in    *)
(* which up to MaxBadFields fields were replaced.  The handler validates    *)
(* it and stores what it accepts.                                          *)
(***************************************************************************)
MaxBadFields == 1

ValidLeadData ==
    [ firstName |-> Str(<<"J", "o", "h", "n">>),
      lastName |-> Str(<<"S", "m", "i", "t", "h">>),
      email |-> Str(OwnerEmail),
      phone |-> Str(<<"7", "0", "4", "5", "5", "5", "1", "2", "3", "4">>),
      address |-> Str(<<"1", "2", " ", "M", "a", "i", "n", " ", "S", "t", ",", " ", "C", "h", "a", "r", "l", "o", "t", "t", "e">>),
      propertyType |-> Str(<<"h", "o", "u", "s", "e">>),
      timeline |-> Str(<<"a", "s", "a", "p">>),
      details |-> Str(<<"E", "s", "t", "a", "t", "e", " ", "o", "f", " ", "t", "e", "n", " ", "r", "o", "o", "m", "s">>) ]

leadRequiredFields ==
    <<"firstName", "lastName", "email", "phone", "address", "propertyType", "timeline",
      "details">>

\* What a field of a body may hold instead of its valid value: nothing, a
\* number, the empty string, blanks, one letter, a lone tag.
ReplacedValues(field) ==
    IF field \in { "termsAgreement", "backgroundCheck", "professionalConduct" }
    THEN { FALSE }
    ELSE IF field = "email"
    THEN { Absent, Num(123), Str(""), Str("   "), Str("not-an-email"), Str(" Owner@Acme.test") }
    ELSE { Absent, Num(123), Str(<<>>), Str(<<" ", " ">>), Str(<<"J">>),
           Str(<<"<", "b", ">">>) }

RECURSIVE ReplacedBodies(_, _)
ReplacedBodies(valid, k) ==
    IF k = 0 THEN { valid }
    ELSE LET fewer == ReplacedBodies(valid, k - 1)
         IN  fewer \cup UNION { { [body EXCEPT ![field] = v] : v \in ReplacedValues(field) } :
                                   <<body, field>> \in fewer \X DOMAIN valid }

ReceivedBodies ==
    { [ op |-> "signup body", data |-> body ] :
        body \in ReplacedBodies(ValidSignupData, MaxBadFields) }
    \cup { [ op |-> "lead body", data |-> body ] :
             body \in ReplacedBodies(ValidLeadData, MaxBadFields) }

InitValidation ==
    /\ now = 0
    /\ Leads = [ i \in LeadIds |-> NewLeadRow(i, CreatedAtOf(i)) ]
    /\ resp = NoResp
    /\ seenOutsideWindow = {}
    /\ leadsRateLimitStorage = << >>
    /\ configRateLimitStorage = << >>
    /\ claimedWindow = [ orig |-> NoWindow, amended |-> NoWindow ]
    /\ Companies = << >>
    /\ \E received \in ReceivedBodies :
          inflight = [ s \in Slots |-> IF s = 1 THEN received ELSE Idle ]
    /\ nextToken = 1
    /\ rateLimitStore = << >>
    /\ verifiedTokens = {}
    /\ resendLog = << >>

Received == inflight[1]

ValSignupCheck ==
    \E dbOk \in BOOLEAN :
        /\ Received.op = "signup body" /\ RowsLeft(MaxAccounts)
        /\ SignupCheck(2, Received.data, dbOk)

ValSignupSave == \E dbOk \in BOOLEAN : TokensLeft(MaxTokens) /\ SignupSave(2, dbOk)

ValSubmitLead ==
    \E dbOk \in BOOLEAN :
        /\ Received.op = "lead body" /\ Len(Leads) <= NumLeads
        /\ SubmitLead(Received.data, dbOk)

NextValidation == ValSignupCheck \/ ValSignupSave \/ ValSubmitLead

SpecValidation == InitValidation /\ [][NextValidation]_vars

\* A required field that is absent, not a string, or blank after trimming.
BadRequired(data, field) ==
    LET v == data[field]
    IN  \/ ~typeofString(v)
        \/ IF field = "email" THEN cleanEmailOf(v[2]) = "" ELSE trim(v[2]) = <<>>

HasBadRequired(data, fields) == \E i \in 1..Len(fields) : BadRequired(data, fields[i])

\* The steps that store what the handler accepted.
StoresAccount == Len(Companies') > Len(Companies)
StoresLead == Len(Leads') > Len(Leads)

\* C18: validateSignupData and validateLeadData report a body as invalid,
\* with a non-empty list of errors, whenever one of the declared required
\* fields is absent, is not a string or is blank after trimming, and no such
\* body is accepted and stored.
C18_BadRequiredFieldReportedInvalid ==
    /\ [](Received.op = "signup body" /\ HasBadRequired(Received.data, requiredFields)
            => LET result == validateSignupData(Received.data)
               IN  ~result.threw /\ ~result.isValid /\ result.errors # <<>>)
    /\ [](Received.op = "lead body" /\ HasBadRequired(Received.data, leadRequiredFields)
            => validateLeadData(Received.data).errors # <<>>)
    /\ [][ /\ StoresAccount => ~HasBadRequired(Received.data, requiredFields)
           /\ StoresLead => ~HasBadRequired(Received.data, leadRequiredFields) ]_vars

\* The messages each validator has about a field.
signupMessagesAbout ==
    [ firstName |-> { "firstName is required", "First name must be at least 2 characters" },
      lastName |-> { "lastName is required", "Last name must be at least 2 characters" },
      companyName |-> { "companyName is required",
                        "Company name must be at least 2 characters" },
      email |-> { "email is required", "Invalid email format" },
      phone |-> { "phone is required", "Invalid phone number format" },
      password |-> { "password is required",
                     "Password must be at least 8 characters with uppercase, lowercase, and number" },
      confirmPassword |-> { "confirmPassword is required", "Passwords do not match" },
      businessAddress |-> { "businessAddress is required",
                            "Business address must be complete" },
      businessType |-> { "businessType is required", "Invalid business type" },
      yearsInBusiness |-> { "yearsInBusiness is required", "Invalid years in business" },
      serviceAreas |-> { "serviceAreas is required",
                         "Service areas must be at least 5 characters" } ]

leadMessagesAbout ==
    [ firstName |-> { "First name is required", "First name cannot be empty" },
      lastName |-> { "Last name is required", "Last name cannot be empty" },
      email |-> { "Email is required", "Invalid email format" },
      phone |-> { "Phone number is required", "Invalid phone number format" },
      address |-> { "Address is required", "Address must be at least 10 characters" },
      propertyType |-> { "Invalid property type" },
      timeline |-> { "Invalid timeline" },
      details |-> { "Details are required", "Details must be at least 10 characters" } ]

MessagesCount(errors, messages) == Cardinality({ i \in 1..Len(errors) : errors[i] \in messages })

\* Each field has at most one message, and a bad required field has one.
OneMessagePerField(data, errors, fields, messagesAbout) ==
    \A i \in 1..Len(fields) :
        LET n == MessagesCount(errors, messagesAbout[fields[i]])
        IN  n <= 1 /\ (BadRequired(data, fields[i]) => n = 1)

\* C19: the validators collect every error of a body, and the list they
\* return holds exactly one message for each missing or invalid field: never
\* none for an invalid field, never two for the same field.
C19_OneMessagePerInvalidField ==
    /\ Received.op = "signup body" /\ ~validateSignupData(Received.data).threw
         => OneMessagePerField(Received.data, validateSignupData(Received.data).errors,
                               requiredFields, signupMessagesAbout)
    /\ Received.op = "lead body"
         => OneMessagePerField(Received.data, validateLeadData(Received.data).errors,
                               leadRequiredFields, leadMessagesAbout)

\* A step of POST /company-signup: its answer, or its validation and existence
\* check going on to the save.
SignupStep ==
    \/ resp'.op = "POST /company-signup"
    \/ \E slot \in Slots : inflight[slot] = Idle /\ inflight'[slot].op = "signup"

SignupAnswered == resp.op = "POST /company-signup"

\* The text of a token has 32 characters, each a letter or a digit.
IsAlphanumeric32(text) ==
    /\ Len(text) = 32
    /\ \A i \in 1..Len(text) : text[i] \in LowerCase \cup UpperCase \cup Digit

SideSignupStart ==
    \E requestData \in SignupRequests :
        AllIdle /\ RowsLeft(MaxAccounts) /\ SignupCheck(1, requestData, TRUE)

SideSignupFinish ==
    \E dbOk \in BOOLEAN, serviceOk \in BOOLEAN :
        TokensLeft(MaxTokens) /\ SignupSaveEmail(1, dbOk, serviceOk)

SideVerifyStart ==
    \E token \in PresentedVerificationTokens(MaxTokens) :
        AllIdle /\ VerifyLookup(1, token, TRUE)

SideVerifyFinish ==
    \E dbOk \in BOOLEAN, emailThrows \in BOOLEAN : VerifyUpdateEmail(1, dbOk, emailThrows)

SideResendStart == \E email \in PresentedEmails : AllIdle /\ ResendLookup(1, email, TRUE)

SideResendFinish == TokensLeft(MaxTokens) /\ ResendUpdate(1, TRUE, FALSE)

NextSideEffects ==
    \/ DayPasses
    \/ SideSignupStart \/ SideSignupFinish
    \/ SideVerifyStart \/ SideVerifyFinish
    \/ SideResendStart \/ SideResendFinish

SpecSideEffects == Init /\ [][NextSideEffects]_vars

\* C21: a failing side effect does not fail the operation.  When the welcome
\* email throws after the verification was written, verify-email answers 200
\* and the account is verified; when the verification email fails after the
\* account was saved, signup answers 201 and the account is stored.
C21_EmailFailureDoesNotFailOperation ==
    [][ /\ (resp'.op = "POST /verify-email" /\ VerifyUpdateEmail(1, TRUE, TRUE))
             => /\ resp'.statusCode = 200
                /\ IsVerifiedRow(RowOf(Companies', inflight[1].companyId))
        /\ (resp'.op = "POST /company-signup" /\ SignupSaveEmail(1, TRUE, FALSE))
             => /\ resp'.statusCode = 201
                /\ StoresAccount
                /\ Companies'[Len(Companies')].id = resp'.body.companyId ]_vars

\* A verification was answered 200 although its welcome email threw, and the
\* account is verified.
C21_Witness ==
    /\ VerifySucceeded
    /\ "welcomeEmailFailed" \in DOMAIN resp /\ resp.welcomeEmailFailed
    /\ IsVerifiedRow(RowOf(Companies, resp.companyId))

(***************************************************************************)
(* Specification of exclusive purchases: the lead marketplace, with the    *)
(* creation of checkout sessions for exclusive purchases                   *)
(***************************************************************************)
PurchaseCheckout ==
    \E request \in { r \in CheckoutRequests : r.type = "exclusive" }, stripeOk \in BOOLEAN :
        CreateCheckout(TRUE, request, stripeOk)

NextPurchase == NextLeads \/ PurchaseCheckout

SpecPurchase == Init /\ [][NextPurchase]_vars

\* 24 hours or more have passed since created_at, or a buyer is recorded.
OutsideExclusiveWindow(lead) ==
    now - lead.created_at >= H24 \/ lead.exclusive_purchased_by # NULL

\* C22: a lead outside its exclusive window can no longer be exclusively
\* purchased.  No checkout request followed by a checkout.session.completed
\* event records an exclusive buyer on a lead that is 24 hours old or more,
\* or that already has an exclusive buyer.
C22_NoPurchaseOutsideExclusiveWindow ==
    [][ \A i \in LeadIds :
          OutsideExclusiveWindow(Leads[i]) /\ Leads'[i].exclusive_purchased_by # NULL =>
              /\ Leads'[i].exclusive_purchased_by = Leads[i].exclusive_purchased_by
              /\ Leads'[i].exclusive_purchase_date = Leads[i].exclusive_purchase_date ]_vars


(***************************************************************************)
(* Listing projections                                                     *)
(***************************************************************************)
ListedOk == resp.op = "GET /leads" /\ resp.statusCode = 200

MaxTimeConfig == 2

companyConfig ==
    [ environment |-> "production", apiVersion |-> "1.0.0",
      features |-> [ photoUpload |-> TRUE, subscriptions |-> TRUE,
                     exclusivePurchases |-> TRUE ],
      limits |-> [ maxPhotos |-> 12, maxLeadsPerPage |-> 100, rateLimit |-> 1000 ] ]

publicConfig ==
    [ environment |-> "production", apiVersion |-> "1.0.0",
      features |-> [ photoUpload |-> TRUE, subscriptions |-> FALSE,
                     exclusivePurchases |-> FALSE ],
      limits |-> [ maxPhotos |-> 12, rateLimit |-> 100 ] ]

\* userRole: 'company' when the header starts with 'Bearer ', jwt.verify does
\* not throw and decoded.exp lies ahead; 'public' otherwise (the catch only
\* logs).
userRoleOf_AnyBearer(event, t) ==
    IF event.authHeader = "bearer" THEN "company" ELSE "public"
userRoleOf(event, t) ==
    IF event.authHeader # "bearer" THEN "public"
    ELSE LET v == jwtVerify(event.token, t)
         IN  IF v.threw THEN "public"
             ELSE IF v.decoded.exp > t THEN "company" ELSE "public"

GetConfig(event) ==
    LET userRole == userRoleOf(event, now)
        clientIP == IF event.clientIP # NULL THEN event.clientIP ELSE "unknown"
        r == isRateLimited(configRateLimitStorage, clientIP, now)
        answer(code, body) == [ op |-> "GET /config", event |-> event,
                                allowed |-> r.allowed,
                                statusCode |-> code, body |-> body ]
    IN  /\ configRateLimitStorage' = r.storage
        /\ resp' = IF ~r.allowed THEN answer(429, [ error |-> "Too many requests" ])
                   ELSE IF userRole = "company" THEN answer(200, companyConfig)
                   ELSE answer(200, publicConfig)
        /\ UNCHANGED <<now, leadVars, leadsRateLimitStorage, claimedWindow, accountVars>>

ConfigEvents ==
    { [ authHeader |-> "bearer", token |-> tok, clientIP |-> "203.0.113.7" ] :
        tok \in { JwtToken(sg, 1, st, e) : sg \in {"good", "bad", "malformed"},
                                           st \in {"active", "cancelled"},
                                           e \in 0..(MaxTimeConfig + 1) } }
    \cup { [ authHeader |-> h, token |-> NoToken, clientIP |-> "203.0.113.7" ] :
             h \in {"none", "basic"} }

ConfigTick == Tick(MaxTimeConfig)

ConfigGet == \E event \in ConfigEvents : GetConfig(event)

NextConfig == ConfigTick \/ ConfigGet

SpecConfig == Init /\ [][NextConfig]_vars

\* The request carries a Bearer token whose signature verifies and whose exp
\* lies ahead.
CarriesLiveToken(event, t) ==
    event.authHeader = "bearer" /\ event.token.sig = "good" /\ t < event.token.exp

\* C24: GET /config answers the company-tier object exactly to requests that
\* carry a Bearer token whose signature verifies and whose exp has not
\* passed; a request with no Authorization header, a malformed header, an
\* invalid token or an expired token gets the public-tier object with status
\* 200, never an authentication error, as long as the client is within its
\* rate limit.
C24_CompanyTierIffLiveToken ==
    resp.op = "GET /config" =>
        /\ resp.statusCode \in {200, 429}
        /\ resp.statusCode = 200 <=> resp.allowed
        /\ resp.allowed =>
              /\ resp.body = companyConfig <=> CarriesLiveToken(resp.event, now)
              /\ ~CarriesLiveToken(resp.event, now) => resp.body = publicConfig

\* Within the rate limit, an expired token of an active subscriber is served
\* the public tier and a live token of a cancelled one the company tier.
C24_Witness ==
    /\ resp.op = "GET /config" /\ resp.statusCode = 200
    /\ resp.event.authHeader = "bearer" /\ resp.event.token.sig = "good"
    /\ resp.event.token.exp < now
    /\ resp.body = publicConfig
    /\ configRateLimitStorage["203.0.113.7"].count > 1

(***************************************************************************)
(* Specification of the password rule: validateSignupData applied to       *)
(* bodies that differ from a valid one in password and confirmPassword     *)
(***************************************************************************)
MaxSuffixLen == 3

RECURSIVE SuffixesUpTo(_)
SuffixesUpTo(n) ==
    IF n = 0 THEN { <<>> }
    ELSE LET shorter == SuffixesUpTo(n - 1)
         IN  shorter \cup { Append(w, ch) : w \in shorter, ch \in { "t", "T", "1", "#", " " } }

PasswordChoices == { <<"S", "e", "c", "r", "e">> \o w : w \in SuffixesUpTo(MaxSuffixLen) }

PasswordBodies ==
    { [ValidSignupData EXCEPT !.password = Str(pw), !.confirmPassword = Str(pw)] :
        pw \in PasswordChoices }
    \cup { [ValidSignupData EXCEPT !.password = Str(pw),
                                   !.confirmPassword = Str(pw \o <<"x">>)] :
             pw \in PasswordChoices }

InitPassword ==
    /\ now = 0
    /\ Leads = [ i \in LeadIds |-> NewLeadRow(i, CreatedAtOf(i)) ]
    /\ resp = NoResp
    /\ seenOutsideWindow = {}
    /\ leadsRateLimitStorage = << >>
    /\ configRateLimitStorage = << >>
    /\ claimedWindow = [ orig |-> NoWindow, amended |-> NoWindow ]
    /\ Companies = << >>
    /\ \E body \in PasswordBodies :
          inflight = [ s \in Slots |-> IF s = 1 THEN [ op |-> "signup body", data |-> body ]
                                       ELSE Idle ]
    /\ nextToken = 1
    /\ rateLimitStore = << >>
    /\ verifiedTokens = {}
    /\ resendLog = << >>

CallValidateSignupData ==
    /\ resp' = [ op |-> "validateSignupData", data |-> Received.data,
                 result |-> validateSignupData(Received.data) ]
    /\ UNCHANGED <<now, leadVars, leadsRateLimitStorage, limiterVars, accountVars>>

SpecPassword == InitPassword /\ [][CallValidateSignupData]_vars

\* The conditions on a password as the rule is described.
MeetsPasswordRule(data) ==
    LET pw == data.password[2]
    IN  /\ \E i \in 1..Len(pw) : pw[i] \in UpperCase
        /\ \E i \in 1..Len(pw) : pw[i] \in LowerCase
        /\ \E i \in 1..Len(pw) : pw[i] \in Digit
        /\ Len(pw) >= 8
        /\ data.password = data.confirmPassword

PasswordReported(errors) ==
    \E i \in 1..Len(errors) :
        errors[i] \in signupMessagesAbout.password \cup signupMessagesAbout.confirmPassword

\* C25: validateSignupData accepts a password if and only if it has at least
\* one upper-case letter, one lower-case letter and one digit, is at least 8
\* characters long and equals confirmPassword: every such password is
\* accepted, every other one is reported as an error.
C25_PasswordAcceptedIffRuleMet ==
    resp.op = "validateSignupData" =>
        (MeetsPasswordRule(resp.data) <=> ~PasswordReported(resp.result.errors))

(***************************************************************************)
(* Specification of concurrent resends: resend-verification requests of    *)
(* one function instance (one rateLimitStore) whose awaits interleave, and *)
(* the clock                                                               *)
(***************************************************************************)
RaceTick == Tick(MaxTimeResend)

RaceSignupStart ==
    /\ AllIdle /\ RowsLeft(MaxAccounts)
    /\ SignupCheck(1, SignupRequest(OwnerEmail, TRUE), TRUE)

RaceSignupFinish == TokensLeft(MaxResendTokens) /\ SignupSave(1, TRUE)

RaceResendStart ==
    \E slot \in Slots, email \in { OwnerEmail, " Owner@Acme.test" } :
        FirstFree(slot) /\ ResendLookup(slot, email, TRUE)

RaceResendFinish ==
    \E slot \in Slots, dbOk \in BOOLEAN, cleanup \in BOOLEAN :
        TokensLeft(MaxResendTokens) /\ ResendUpdate(slot, dbOk, cleanup)

NextResendRace ==
    \/ RaceTick
    \/ RaceSignupStart \/ RaceSignupFinish
    \/ RaceResendStart \/ RaceResendFinish

SpecResendRace == Init /\ [][NextResendRace]_vars

\* The step sends a verification email for an address for which the three
\* requests answered before it each sent one, the first of them less than 15
\* minutes ago.
FourthEmailWithinWindow ==
    /\ ResendAnswered' /\ resp'.message = "sent"
    /\ Len(resendLog) = maxAttempts
    /\ \A i \in 1..maxAttempts : resendLog[i].email = resp'.email /\ resendLog[i].sent
    /\ now' - resendLog[1].at < resendWindowMs

\* C26: for one email at most 3 verification emails are sent (tokens
\* reissued) in any 15-minute window, under every interleaving of concurrent
\* resend-verification requests: no fourth request gets through between the
\* rate-limit check and the recording of the attempt.
C26_AtMostThreeEmailsPerWindow ==
    [][ ~FourthEmailWithinWindow ]_vars

(***************************************************************************)
(* POST /auth-logout (auth-logout.js): the answer clears the auth_token    *)
(* cookie; nothing is stored                                               *)
(***************************************************************************)
AuthLogout ==
    /\ resp' = [ op |-> "POST /auth-logout", statusCode |-> 200,
                 setCookie |-> "auth_token=; HttpOnly; Secure; SameSite=Strict; Max-Age=0; Path=/",
                 body |-> [ success |-> TRUE, message |-> "Logged out successfully" ] ]
    /\ UNCHANGED <<now, leadVars, leadsRateLimitStorage, limiterVars, accountVars>>

(***************************************************************************)
(* Specification of sessions: the account's subscription is created,       *)
(* updated and cancelled by the webhook while its owner logs out and       *)
(* presents session tokens to GET /leads and POST /auth-verify             *)
(***************************************************************************)
\* Tokens issued to the account's owner, with the status and expiry they
\* were signed with.
SessionTokens ==
    { [JwtToken("good", 1, st, e) EXCEPT !.email = OwnerEmail] :
        st \in { "active", "past_due" }, e \in ExpChoices }

SessTick == Tick(MaxTimeLeads)

SessCheckoutStart ==
    AllIdle /\ WebhookSubscriptionCheck(1, OwnerEmail, AcmeEstates, "cus_1", "rows")

SessCheckoutFinish == WebhookSubscriptionWrite(1, TRUE)

SessWebhook ==
    \E type \in { "customer.subscription.updated", "customer.subscription.deleted" },
       status \in { "active", "past_due" } :
        AllIdle /\ StripeWebhook(StripeEvent(TRUE, type, TRUE, FALSE, "cus_1", status), TRUE)

SessLogout == AllIdle /\ AuthLogout

SessLeads ==
    \E tok \in SessionTokens, dbOk \in BOOLEAN :
        LET event == LeadsEvent("bearer", tok, "203.0.113.7", DefaultQuery)
        IN  AllIdle /\ BelowCallCap(event) /\ GetLeads(event, dbOk)

SessVerify ==
    \E tok \in SessionTokens :
        AllIdle /\ AuthVerify(VerifyEvent("bearer", tok, "empty", NoToken))

NextSession ==
    \/ SessTick \/ SessCheckoutStart \/ SessCheckoutFinish \/ SessWebhook
    \/ SessLogout \/ SessLeads \/ SessVerify

SpecSession == Init /\ [][NextSession]_vars

\* The stored subscription status of the account a token was issued to.
AccountStatuses(tok) ==
    { subscriptionStatusOf(Companies[i]) :
        i \in { j \in 1..Len(Companies) : Companies[j].email = tok.email } }

\* C27: what a session token yields depends on the token and the clock only.
\* Between issue and expiry, whatever logouts and subscription webhooks have
\* happened, POST /auth-verify answers 200 with the subscriptionStatus the
\* token was issued with, and GET /leads admits a token issued with 'active'
\* and shows it the contact fields of every lead without exclusive buyer.
C27_TokenOutcomeIgnoresLogoutAndWebhook ==
    (resp.op \in { "POST /auth-verify", "GET /leads" } /\ now < resp.event.token.exp) =>
        LET tok == resp.event.token
        IN  /\ resp.op = "POST /auth-verify" =>
                  /\ resp.statusCode = 200
                  /\ resp.body.user.subscriptionStatus = tok.subscriptionStatus
            /\ resp.op = "GET /leads" =>
                  /\ resp.statusCode = 401 <=> tok.subscriptionStatus # "active"
                  /\ resp.statusCode = 200 =>
                        \A i \in 1..Len(resp.body.data) :
                            LET shown == resp.body.data[i]
                            IN  shown.exclusivePurchasedBy = NULL =>
                                  ContactFields(shown) = StoredContact(Leads[shown.id])

\* The webhook has cancelled the account's subscription, and a token issued
\* with 'active' is still shown a lead's contact fields.
C27_Witness ==
    /\ resp.op = "GET /leads" /\ resp.statusCode = 200
    /\ AccountStatuses(resp.event.token) = { "cancelled" }
    /\ Len(resp.body.data) > 0
    /\ ContactFields(resp.body.data[1]) = StoredContact(Leads[resp.body.data[1].id])

(***************************************************************************)
(* Specification of the verification deadline: one account, resends and    *)
(* verify-email requests interleaved, lookups that may fail, while the     *)
(* clock moves by whole days                                               *)
(***************************************************************************)
DeadSignupStart ==
    /\ AllIdle /\ RowsLeft(MaxAccounts)
    /\ SignupCheck(1, SignupRequest(OwnerEmail, TRUE), TRUE)

DeadSignupFinish == TokensLeft(MaxTokens) /\ SignupSave(1, TRUE)

DeadVerifyStart ==
    \E slot \in Slots, n \in 1..MaxTokens, dbOk \in BOOLEAN :
        FirstFree(slot) /\ VerifyLookup(slot, Token(n), dbOk)

DeadVerifyFinish == \E slot \in Slots : VerifyUpdate(slot, TRUE)

DeadResendStart ==
    \E slot \in Slots : FirstFree(slot) /\ ResendLookup(slot, OwnerEmail, TRUE)

DeadResendFinish ==
    \E slot \in Slots : TokensLeft(MaxTokens) /\ ResendUpdate(slot, TRUE, FALSE)

NextDeadline ==
    \/ DayPasses
    \/ DeadSignupStart \/ DeadSignupFinish
    \/ DeadVerifyStart \/ DeadVerifyFinish
    \/ DeadResendStart \/ DeadResendFinish

SpecDeadline == Init /\ [][NextDeadline]_vars

\* The account is unverified, holds a token, and was created more than 24
\* hours ago.
PastDeadline(row) ==
    ~emailVerified(row) /\ tokenOf(row) # NullToken /\ now - row.created_at > maxAge

\* This step is the arrival of a verify-email request presenting token n:
\* it is answered at once, or it goes on to the update.
VerifyArrivesAnswered(n) ==
    /\ resp'.op = "POST /verify-email" /\ inflight' = inflight
    /\ resp'.token.kind = "token" /\ resp'.token.n = n

VerifyArrivesGoesOn(n) ==
    \E slot \in Slots :
        /\ inflight[slot].op = "idle" /\ inflight'[slot].op = "verify"
        /\ inflight'[slot].token.n = n

LimitChoices == { Absent, Num(0), Num(101), Text }
OffsetChoices == { Absent, Num(-1), Text }
RadiusChoices == { Absent, Num(1001), Text }

ParameterQueries ==
    { [DefaultQuery EXCEPT !.limit = l, !.offset = o, !.radius = r, !.zipCode = z] :
        l \in LimitChoices, o \in OffsetChoices, r \in RadiusChoices,
        z \in { Absent, Num(28202), Text } }

QueryTick == Tick(MaxTimeLeads)

QueryLeads ==
    \E q \in ParameterQueries, dbOk \in BOOLEAN :
        LET event == LeadsEvent("bearer", JwtToken("good", 1, "active", MaxTimeLeads + 1),
                                "203.0.113.7", q)
        IN  BelowCallCap(event) /\ GetLeads(event, dbOk)

NextQuery == QueryTick \/ QueryLeads

SpecQuery == Init /\ [][NextQuery]_vars

\* limit, offset and radius as the datastore query needs them.
InRange(params) ==
    /\ params.limit \in 1..100
    /\ params.offset # NaN /\ params.offset >= 0
    /\ params.radius \in 1..1000

\* The request got as far as the datastore query: it was answered with the
\* rows (200) or with the failure of the query (500).
QueriedDatastore == resp.op = "GET /leads" /\ resp.statusCode \in { 200, 500 }

\* C29: GET /leads queries the datastore only with validated parameters.
\* Whenever validateQueryParams returns no errors, limit is an integer in
\* 1..100, offset an integer >= 0 and radius an integer in 1..1000, for every
\* query string, non-numeric values included; any other input is answered
\* 400 without a datastore query.
C29_DatastoreQueriedWithValidatedParams ==
    (resp.op = "GET /leads" /\ resp.statusCode \notin { 401, 429 }) =>
        LET validatedParams == validateQueryParams(parsedParams(resp.event.query))
        IN  /\ validatedParams.errors = <<>> => InRange(validatedParams.params)
            /\ QueriedDatastore => InRange(validatedParams.params)
            /\ ~InRange(parsedParams(resp.event.query)) => resp.statusCode = 400

(***************************************************************************)
(* Frame of the GET /leads rate-limit counters                             *)
(***************************************************************************)
\* The counter key of a request: the token's userId and the client-ip header.
CallerKey(event) ==
    <<event.token.userId, IF event.clientIP # NULL THEN event.clientIP ELSE "unknown">>

\* C30: on GET /leads the rate-limit counters are touched only by
\* authenticated requests and only for the caller's own key: a request
\* answered 401 creates and changes no counter, and a request with key
\* (userId, client-ip) leaves count and reset time of every other key as they
\* were; no other step touches the counters.
C30_CountersTouchedOnlyForCallerKey ==
    [][ /\ resp'.op # "GET /leads" => leadsRateLimitStorage' = leadsRateLimitStorage
        /\ resp'.op = "GET /leads" =>
              IF resp'.statusCode = 401
              THEN leadsRateLimitStorage' = leadsRateLimitStorage
              ELSE /\ DOMAIN leadsRateLimitStorage' =
                        DOMAIN leadsRateLimitStorage \cup { CallerKey(resp'.event) }
                   /\ \A k \in DOMAIN leadsRateLimitStorage :
                          k # CallerKey(resp'.event) =>
                              leadsRateLimitStorage'[k] = leadsRateLimitStorage[k] ]_vars

\* A request counted under its own key while another key holds a different
\* count.
C30_Witness ==
    /\ resp.op = "GET /leads" /\ resp.statusCode # 401
    /\ \E k \in DOMAIN leadsRateLimitStorage :
          /\ k # CallerKey(resp.event)
          /\ leadsRateLimitStorage[k].count
               # leadsRateLimitStorage[CallerKey(resp.event)].count
====
